---------------------------- MODULE Spec2Model ----------------------------
(***************************************************************************)
(* ChargeLab: the stoichiometry/electrochemistry engine (chemistry.js) and *)
(* the magnetic field engine (physics.js), with the constructors, URL      *)
(* factories and UI input reading that feed them.                          *)
(*                                                                         *)
(* JavaScript numbers are modelled by their IEEE-754 value classes: NaN,   *)
(* +/-Infinity and finite values.  A finite value is the exact rational    *)
(* n/d times PI^p (p is the power of Math.PI, which only the physics       *)
(* formulas introduce); rounding of the 53-bit mantissa is not modelled,    *)
(* and -0 is identified with 0 (no computed zero is ever a divisor).       *)
(***************************************************************************)
EXTENDS Integers, Sequences, FiniteSets, TLC

VARIABLES
    now,        \* wall clock read by new Date()
    chem,       \* the ChemistryCalculator instance (NoObject before construction)
    chemArgs,   \* the argument the calculator was last given: options, URL parameters
    chemUI,     \* the ChemistryCalculatorUI's input elements (NoObject when the calculator has no UI)
    phys,       \* the MagneticFieldCalculator instance
    physArgs,   \* the argument the calculator was last given
    physUI,     \* the PhysicsCalculatorUI's input elements
    storage,    \* localStorage, keys without the chargelab_ prefix
    held,       \* the result object and step array a caller of calculate() keeps (NoObject when none)
    app,        \* AppState and the query string of the page's URL (NoObject before init())
    lab,        \* the LimitingReagentLab (NoObject before construction)
    scenarioManager, \* the ScenarioManager (NoObject before construction)
    chemLocation, \* the chemistry page's window.location.search and the link last shared
    fieldLab,   \* the FieldMappingLab (NoObject before construction)
    animation,  \* the HalfReactionAnimation and the animation frames requested for it
    debounced   \* a function made by Utils.debounce, the timers set for it and the time

\* the objects of simulations.js and of the page's timers
simVars == <<lab, scenarioManager, chemLocation, fieldLab, animation, debounced>>

vars == <<now, chem, chemArgs, chemUI, phys, physArgs, physUI, storage, held, app, simVars>>
\* what the physics actions leave alone, and what the chemistry actions do
chemVars == <<chem, chemArgs, chemUI, storage, held, app, simVars>>
physVars == <<phys, physArgs, physUI, held, app, simVars>>

-----------------------------------------------------------------------------
(* Bounds of the model *)

\* masses offered to the chemistry engine are 0..MaxMass grams
MaxMass == 2
\* currents offered to the field engine are -1..MaxCurrent amperes
MaxCurrent == 2
\* the clock runs 0..MaxClock
MaxClock == 1

-----------------------------------------------------------------------------
(* JavaScript values *)

RECURSIVE GCD(_, _)
GCD(a, b) == IF b = 0 THEN a ELSE GCD(b, a % b)

Abs(x) == IF x < 0 THEN -x ELSE x

Sign(x) == IF x < 0 THEN -1 ELSE IF x > 0 THEN 1 ELSE 0

Undefined == [k |-> "undefined", n |-> 0, d |-> 1, p |-> 0]
Null == [k |-> "null", n |-> 0, d |-> 1, p |-> 0]
NaN == [k |-> "NaN", n |-> 0, d |-> 1, p |-> 0]
Infinity(s) == [k |-> "Infinity", n |-> s, d |-> 1, p |-> 0]
\* a non-empty string that is not the text of a number, such as 'abc'
NonNumeric == [k |-> "string", n |-> 0, d |-> 1, p |-> 0]

\* the finite number (n/d) * PI^p, in lowest terms
Num(n, d, p) ==
    LET g == GCD(Abs(n), Abs(d))
        s == IF d < 0 THEN -1 ELSE 1
    IN  IF n = 0 THEN [k |-> "num", n |-> 0, d |-> 1, p |-> 0]
        ELSE [k |-> "num", n |-> s * (n \div g), d |-> s * (d \div g), p |-> p]

Rat(n, d) == Num(n, d, 0)
Int2Num(i) == Num(i, 1, 0)
Zero == Int2Num(0)

IsFinite(v) == v.k = "num"
IsNumber(v) == v.k \in {"num", "Infinity", "NaN"}
IsZero(v) == v.k = "num" /\ v.n = 0
SignOf(v) == Sign(v.n)

\* ToBoolean: undefined, null, NaN and 0 are falsy
Truthy(v) == v.k \in {"Infinity", "string"} \/ (v.k = "num" /\ v.n # 0)

\* ToNumber, as the arithmetic and relational operators apply it to their
\* operands: undefined and a non-numeric string are NaN, null is 0
ToNumber(v) ==
    IF v.k \in {"undefined", "string"} THEN NaN
    ELSE IF v.k = "null" THEN [k |-> "num", n |-> 0, d |-> 1, p |-> 0]
    ELSE v

\* a || b
OrElse(a, b) == IF Truthy(a) THEN a ELSE b

\* a * b
Mul(a0, b0) ==
    LET a == ToNumber(a0)
        b == ToNumber(b0)
    IN
    IF a.k = "NaN" \/ b.k = "NaN" THEN NaN
    ELSE IF a.k = "Infinity" \/ b.k = "Infinity"
         THEN IF IsZero(a) \/ IsZero(b) THEN NaN ELSE Infinity(SignOf(a) * SignOf(b))
    ELSE LET g1 == GCD(Abs(a.n), b.d)
             g2 == GCD(Abs(b.n), a.d)
         IN  IF a.n = 0 \/ b.n = 0 THEN Zero
             ELSE Num((a.n \div g1) * (b.n \div g2), (a.d \div g2) * (b.d \div g1), a.p + b.p)

\* a / b
Div(a0, b0) ==
    LET a == ToNumber(a0)
        b == ToNumber(b0)
    IN
    IF a.k = "NaN" \/ b.k = "NaN" THEN NaN
    ELSE IF a.k = "Infinity"
         THEN IF b.k = "Infinity" THEN NaN
              ELSE Infinity(SignOf(a) * (IF SignOf(b) < 0 THEN -1 ELSE 1))
    ELSE IF b.k = "Infinity" THEN Zero
    ELSE IF IsZero(b) THEN (IF IsZero(a) THEN NaN ELSE Infinity(SignOf(a)))
    ELSE Mul(a, [k |-> "num", n |-> Sign(b.n) * b.d, d |-> Abs(b.n), p |-> -b.p])

Neg(a0) ==
    LET a == ToNumber(a0)
    IN  IF a.k \in {"num", "Infinity"} THEN [a EXCEPT !.n = -a.n] ELSE a

\* a + b (finite operands carry the same power of PI, or one of them is 0)
Add(a0, b0) ==
    LET a == ToNumber(a0)
        b == ToNumber(b0)
    IN
    IF a.k = "NaN" \/ b.k = "NaN" THEN NaN
    ELSE IF a.k = "Infinity"
         THEN IF b.k = "Infinity" /\ b.n # a.n THEN NaN ELSE a
    ELSE IF b.k = "Infinity" THEN b
    ELSE IF IsZero(a) THEN b
    ELSE IF IsZero(b) THEN a
    ELSE LET g == GCD(a.d, b.d)
         IN  Num(a.n * (b.d \div g) + b.n * (a.d \div g), (a.d \div g) * b.d, a.p)

\* a - b
Sub(a, b) == Add(a, Neg(b))

\* a < b (false when either is NaN)
Lt(a0, b0) ==
    LET a == ToNumber(a0)
        b == ToNumber(b0)
    IN
    IF a.k = "NaN" \/ b.k = "NaN" THEN FALSE
    ELSE IF a.k = "Infinity" THEN a.n < 0 /\ ~(b.k = "Infinity" /\ b.n < 0)
    ELSE IF b.k = "Infinity" THEN b.n > 0
    ELSE a.n * b.d < b.n * a.d

\* a > b
Gt(a, b) == Lt(b, a)

\* a >= b
Ge(a, b) == ToNumber(a).k # "NaN" /\ ToNumber(b).k # "NaN" /\ ~Lt(a, b)

NoObject == [exists |-> FALSE]


-----------------------------------------------------------------------------
(* Strings: a text is a sequence of one-character strings.  NoText is the  *)
(* value of a URL parameter or input element that is not there (undefined, *)
(* which the parsers turn into the string "undefined").                    *)

NoText == <<"undefined">>

InfinityText == <<"I", "n", "f", "i", "n", "i", "t", "y">>

Digits == {"0", "1", "2", "3", "4", "5", "6", "7", "8", "9"}

DigitVal(ch) ==
    CASE ch = "0" -> 0 [] ch = "1" -> 1 [] ch = "2" -> 2 [] ch = "3" -> 3
      [] ch = "4" -> 4 [] ch = "5" -> 5 [] ch = "6" -> 6 [] ch = "7" -> 7
      [] ch = "8" -> 8 [] ch = "9" -> 9

\* how many digits s holds from index i on, up to the first non-digit
RECURSIVE DigitRun(_, _)
DigitRun(s, i) ==
    IF i <= Len(s) /\ s[i] \in Digits THEN 1 + DigitRun(s, i + 1) ELSE 0

\* the value of the len digits of s from index i on
RECURSIVE DigitsValue(_, _, _)
DigitsValue(s, i, len) ==
    IF len = 0 THEN 0
    ELSE 10 * DigitsValue(s, i, len - 1) + DigitVal(s[i + len - 1])

RECURSIVE Pow10(_)
Pow10(e) == IF e = 0 THEN 1 ELSE 10 * Pow10(e - 1)

\* parseFloat: an optional sign, digits, an optional fraction; the longest
\* such prefix is the number, and NaN when it holds no digit
parseFloat(s) ==
    LET signed == Len(s) >= 1 /\ s[1] \in {"-", "+"}
        sgn == IF signed /\ s[1] = "-" THEN -1 ELSE 1
        i0 == IF signed THEN 2 ELSE 1
        ni == DigitRun(s, i0)
        dot == i0 + ni <= Len(s) /\ s[i0 + ni] = "."
        nf == IF dot THEN DigitRun(s, i0 + ni + 1) ELSE 0
    IN  IF ni + nf = 0
        THEN IF Len(s) >= i0 + 7 /\ SubSeq(s, i0, i0 + 7) = InfinityText
             THEN Infinity(sgn) ELSE NaN
        ELSE Rat(sgn * (DigitsValue(s, i0, ni) * Pow10(nf)
                        + DigitsValue(s, i0 + ni + 1, nf)), Pow10(nf))

\* parseInt: an optional sign and digits; NaN when there is no digit
parseInt(s) ==
    LET signed == Len(s) >= 1 /\ s[1] \in {"-", "+"}
        sgn == IF signed /\ s[1] = "-" THEN -1 ELSE 1
        i0 == IF signed THEN 2 ELSE 1
        ni == DigitRun(s, i0)
    IN  IF ni = 0 THEN NaN ELSE Int2Num(sgn * DigitsValue(s, i0, ni))

\* the decimal text of the integer i >= 0
RECURSIVE NatText(_)
NatText(i) ==
    LET ch == CHOOSE c \in Digits : DigitVal(c) = i % 10
    IN  IF i < 10 THEN <<ch>> ELSE Append(NatText(i \div 10), ch)

\* the decimal text of the i >= 0 written with exactly len digits
RECURSIVE PaddedText(_, _)
PaddedText(i, len) ==
    IF len = 0 THEN <<>>
    ELSE Append(PaddedText(i \div 10, len - 1), CHOOSE c \in Digits : DigitVal(c) = i % 10)

\* Number.prototype.toString for NaN, the infinities and the finite numbers
\* with a terminating decimal expansion of at most 9 places (the only ones
\* an input element or URL parameter is set from)
ToText(v) ==
    IF v.k = "NaN" THEN <<"N", "a", "N">>
    ELSE IF v.k = "Infinity"
         THEN (IF v.n < 0 THEN <<"-">> ELSE <<>>) \o InfinityText
    ELSE LET places == CHOOSE e \in 0..9 :
                         /\ Pow10(e) % v.d = 0
                         /\ \A f \in 0..9 : Pow10(f) % v.d = 0 => e <= f
             scaled == Abs(v.n) * (Pow10(places) \div v.d)
         IN  (IF v.n < 0 THEN <<"-">> ELSE <<>>)
             \o NatText(scaled \div Pow10(places))
             \o (IF places = 0 THEN <<>>
                 ELSE <<".">> \o PaddedText(scaled % Pow10(places), places))

-----------------------------------------------------------------------------
(* chemistry.js: constants *)

MOLAR_MASS_ZN == Rat(6538, 100)
MOLAR_MASS_MNO2 == Rat(86936, 1000)
MOLAR_MASS_ZNO == Rat(8138, 100)
MOLAR_MASS_MN2O3 == Rat(15787, 100)
FARADAY == 96485
DEFAULT_VOLTAGE == Rat(15, 10)
DEFAULT_ELECTRONS == 2
STOICH_MNO2 == 2
SECONDS_PER_HOUR == 3600
MINUTES_PER_HOUR == 60

Zn == "Zn"
MnO2 == "MnO2"

-----------------------------------------------------------------------------
(* chemistry.js: class ChemistryCalculator *)

\* a ?? b: only undefined and null give way to the default
OrElseNullish(a, b) == IF a.k \in {"undefined", "null"} THEN b ELSE a

\* constructor(options).  The mutant keeps a molar mass of 0 (?? for ||).
ChemistryCalculator_newKeepingZero(options) ==
    [ exists |-> TRUE,
      molarMassZn |-> OrElseNullish(options.molarMassZn, MOLAR_MASS_ZN),
      molarMassMnO2 |-> OrElseNullish(options.molarMassMnO2, MOLAR_MASS_MNO2),
      electronsPerReaction |-> OrElse(options.electronsPerReaction, Int2Num(DEFAULT_ELECTRONS)),
      cellVoltage |-> OrElse(options.cellVoltage, DEFAULT_VOLTAGE),
      massZn |-> OrElse(options.massZn, Zero),
      massMnO2 |-> OrElse(options.massMnO2, Zero),
      resistance |-> OrElse(options.resistance, Null),
      results |-> NoObject,
      workSteps |-> <<>> ]
ChemistryCalculator_new(options) ==
    [ exists |-> TRUE,
      molarMassZn |-> OrElse(options.molarMassZn, MOLAR_MASS_ZN),
      molarMassMnO2 |-> OrElse(options.molarMassMnO2, MOLAR_MASS_MNO2),
      electronsPerReaction |-> OrElse(options.electronsPerReaction, Int2Num(DEFAULT_ELECTRONS)),
      cellVoltage |-> OrElse(options.cellVoltage, DEFAULT_VOLTAGE),
      massZn |-> OrElse(options.massZn, Zero),
      massMnO2 |-> OrElse(options.massMnO2, Zero),
      resistance |-> OrElse(options.resistance, Null),
      results |-> NoObject,
      workSteps |-> <<>> ]

\* calculate(), step 1: mass to moles.  The mutant divides by the default
\* molar mass whatever the user set.
MolesIgnoringMolarMass(mass, molarMass) == Div(mass, MOLAR_MASS_ZN)
Moles(mass, molarMass) == Div(mass, molarMass)

\* calculate(), step 2: the limiting reagent.  The mutant compares with <=,
\* so a tie reports MnO2; the second mutant swaps the branches.
LimitingReagentTieToMnO2(molesZn, molesMnO2) ==
    LET requiredMnO2ForZn == Mul(molesZn, Int2Num(STOICH_MNO2))
        requiredZnForMnO2 == Div(molesMnO2, Int2Num(STOICH_MNO2))
    IN  IF ~Lt(requiredMnO2ForZn, molesMnO2)
        THEN [ limitingReagent |-> MnO2, excessReagent |-> Zn,
               molesReacting |-> Div(molesMnO2, Int2Num(STOICH_MNO2)),
               excessMoles |-> Sub(molesZn, requiredZnForMnO2) ]
        ELSE [ limitingReagent |-> Zn, excessReagent |-> MnO2,
               molesReacting |-> molesZn,
               excessMoles |-> Sub(molesMnO2, requiredMnO2ForZn) ]
LimitingReagentSwapped(molesZn, molesMnO2) ==
    LET requiredMnO2ForZn == Mul(molesZn, Int2Num(STOICH_MNO2))
        requiredZnForMnO2 == Div(molesMnO2, Int2Num(STOICH_MNO2))
    IN  IF Lt(requiredMnO2ForZn, molesMnO2)
        THEN [ limitingReagent |-> MnO2, excessReagent |-> Zn,
               molesReacting |-> Div(molesMnO2, Int2Num(STOICH_MNO2)),
               excessMoles |-> Sub(molesZn, requiredZnForMnO2) ]
        ELSE [ limitingReagent |-> Zn, excessReagent |-> MnO2,
               molesReacting |-> molesZn,
               excessMoles |-> Sub(molesMnO2, requiredMnO2ForZn) ]
LimitingReagent(molesZn, molesMnO2) ==
    LET requiredMnO2ForZn == Mul(molesZn, Int2Num(STOICH_MNO2))
        requiredZnForMnO2 == Div(molesMnO2, Int2Num(STOICH_MNO2))
    IN  IF Lt(molesMnO2, requiredMnO2ForZn)
        THEN [ limitingReagent |-> MnO2, excessReagent |-> Zn,
               molesReacting |-> Div(molesMnO2, Int2Num(STOICH_MNO2)),
               excessMoles |-> Sub(molesZn, requiredZnForMnO2) ]
        ELSE [ limitingReagent |-> Zn, excessReagent |-> MnO2,
               molesReacting |-> molesZn,
               excessMoles |-> Sub(molesMnO2, requiredMnO2ForZn) ]

\* calculate(), steps 3 to 5: electrons, charge, energy.  The mutant converts
\* joules to watt-hours with 60 * 60 * 10.
ElectrochemistryWrongHour(electronsPerReaction, cellVoltage, molesReacting) ==
    LET totalElectrons == Mul(electronsPerReaction, molesReacting)
        chargeQ == Mul(totalElectrons, Int2Num(FARADAY))
        energyJ == Mul(cellVoltage, chargeQ)
    IN  [ totalElectrons |-> totalElectrons, chargeQ |-> chargeQ,
          energyJ |-> energyJ,
          energyWh |-> Div(energyJ, Int2Num(10 * SECONDS_PER_HOUR)) ]
Electrochemistry(electronsPerReaction, cellVoltage, molesReacting) ==
    LET totalElectrons == Mul(electronsPerReaction, molesReacting)
        chargeQ == Mul(totalElectrons, Int2Num(FARADAY))
        energyJ == Mul(cellVoltage, chargeQ)
    IN  [ totalElectrons |-> totalElectrons, chargeQ |-> chargeQ,
          energyJ |-> energyJ,
          energyWh |-> Div(energyJ, Int2Num(SECONDS_PER_HOUR)) ]

\* calculate(), step 6: current and runtime, when a resistance > 0 is set.
\* The mutant drops the > 0 test, as `if (this.resistance)` would.
RuntimeAnyResistance(resistance, cellVoltage, energyWh) ==
    IF Truthy(resistance)
    THEN LET current == Div(cellVoltage, resistance)
             runtimeHours == Div(energyWh, Mul(cellVoltage, current))
         IN  [ current |-> current, runtimeHours |-> runtimeHours,
               runtimeMinutes |-> Mul(runtimeHours, Int2Num(MINUTES_PER_HOUR)),
               step |-> TRUE ]
    ELSE [ current |-> Null, runtimeHours |-> Null, runtimeMinutes |-> Null,
           step |-> FALSE ]
Runtime(resistance, cellVoltage, energyWh) ==
    IF Truthy(resistance) /\ Gt(resistance, Zero)
    THEN LET current == Div(cellVoltage, resistance)
             runtimeHours == Div(energyWh, Mul(cellVoltage, current))
         IN  [ current |-> current, runtimeHours |-> runtimeHours,
               runtimeMinutes |-> Mul(runtimeHours, Int2Num(MINUTES_PER_HOUR)),
               step |-> TRUE ]
    ELSE [ current |-> Null, runtimeHours |-> Null, runtimeMinutes |-> Null,
           step |-> FALSE ]

\* the titles of the work steps calculate() pushes, in order
ChemWorkSteps(withRuntime) ==
    << "Convert mass to moles", "Identify limiting reagent",
       "Calculate electrons transferred", "Calculate total charge",
       "Calculate theoretical energy" >>
    \o (IF withRuntime THEN << "Estimate current and runtime (approximation)" >> ELSE <<>>)

\* calculate() at clock time t: the calculator with this.results and
\* this.workSteps replaced.  The mutant leaves out `this.workSteps = []`.
ChemistryCalculator_calculateAccumulating(c, t) ==
    LET molesZn == Moles(c.massZn, c.molarMassZn)
        molesMnO2 == Moles(c.massMnO2, c.molarMassMnO2)
        lim == LimitingReagent(molesZn, molesMnO2)
        el == Electrochemistry(c.electronsPerReaction, c.cellVoltage, lim.molesReacting)
        rt == Runtime(c.resistance, c.cellVoltage, el.energyWh)
    IN  [ c EXCEPT
          !.workSteps = c.workSteps \o ChemWorkSteps(rt.step),
          !.results =
            [ exists |-> TRUE,
              inputs |-> [ massZn |-> c.massZn, massMnO2 |-> c.massMnO2,
                           molarMassZn |-> c.molarMassZn,
                           molarMassMnO2 |-> c.molarMassMnO2,
                           electronsPerReaction |-> c.electronsPerReaction,
                           cellVoltage |-> c.cellVoltage,
                           resistance |-> c.resistance ],
              molesZn |-> molesZn,
              molesMnO2 |-> molesMnO2,
              limitingReagent |-> lim.limitingReagent,
              excessReagent |-> lim.excessReagent,
              molesReacting |-> lim.molesReacting,
              excessMoles |-> lim.excessMoles,
              massZnO |-> Mul(lim.molesReacting, MOLAR_MASS_ZNO),
              massMn2O3 |-> Mul(lim.molesReacting, MOLAR_MASS_MN2O3),
              totalElectrons |-> el.totalElectrons,
              chargeQ |-> el.chargeQ,
              energyJ |-> el.energyJ,
              energyWh |-> el.energyWh,
              current |-> rt.current,
              runtimeHours |-> rt.runtimeHours,
              runtimeMinutes |-> rt.runtimeMinutes,
              timestamp |-> t ] ]
ChemistryCalculator_calculate(c, t) ==
    LET molesZn == Moles(c.massZn, c.molarMassZn)
        molesMnO2 == Moles(c.massMnO2, c.molarMassMnO2)
        lim == LimitingReagent(molesZn, molesMnO2)
        el == Electrochemistry(c.electronsPerReaction, c.cellVoltage, lim.molesReacting)
        rt == Runtime(c.resistance, c.cellVoltage, el.energyWh)
    IN  [ c EXCEPT
          !.workSteps = ChemWorkSteps(rt.step),
          !.results =
            [ exists |-> TRUE,
              inputs |-> [ massZn |-> c.massZn, massMnO2 |-> c.massMnO2,
                           molarMassZn |-> c.molarMassZn,
                           molarMassMnO2 |-> c.molarMassMnO2,
                           electronsPerReaction |-> c.electronsPerReaction,
                           cellVoltage |-> c.cellVoltage,
                           resistance |-> c.resistance ],
              molesZn |-> molesZn,
              molesMnO2 |-> molesMnO2,
              limitingReagent |-> lim.limitingReagent,
              excessReagent |-> lim.excessReagent,
              molesReacting |-> lim.molesReacting,
              excessMoles |-> lim.excessMoles,
              massZnO |-> Mul(lim.molesReacting, MOLAR_MASS_ZNO),
              massMn2O3 |-> Mul(lim.molesReacting, MOLAR_MASS_MN2O3),
              totalElectrons |-> el.totalElectrons,
              chargeQ |-> el.chargeQ,
              energyJ |-> el.energyJ,
              energyWh |-> el.energyWh,
              current |-> rt.current,
              runtimeHours |-> rt.runtimeHours,
              runtimeMinutes |-> rt.runtimeMinutes,
              timestamp |-> t ] ]

\* static fromURLParams(params): params maps names to texts (NoText when absent)
ChemistryCalculator_fromURLParams(params) ==
    ChemistryCalculator_new(
        [ massZn |-> OrElse(parseFloat(params.massZn), Zero),
          massMnO2 |-> OrElse(parseFloat(params.massMnO2), Zero),
          molarMassZn |-> OrElse(parseFloat(params.molarMassZn), MOLAR_MASS_ZN),
          molarMassMnO2 |-> OrElse(parseFloat(params.molarMassMnO2), MOLAR_MASS_MNO2),
          cellVoltage |-> OrElse(parseFloat(params.voltage), DEFAULT_VOLTAGE),
          electronsPerReaction |-> OrElse(parseInt(params.electrons), Int2Num(DEFAULT_ELECTRONS)),
          resistance |-> OrElse(parseFloat(params.resistance), Null) ])

-----------------------------------------------------------------------------
(* main.js: AppState.save / AppState.load on localStorage *)

\* JSON.stringify then JSON.parse of a number: NaN and the infinities come
\* back as null
JsonNumber(v) == IF v.k \in {"NaN", "Infinity", "undefined"} THEN Null ELSE v

-----------------------------------------------------------------------------
(* chemistry.js: class ChemistryCalculatorUI *)

CHEMISTRY_PRESETS ==
    [ A |-> [massZn |-> Rat(10, 10), massMnO2 |-> Rat(20, 10)],
      B |-> [massZn |-> Rat(100, 10), massMnO2 |-> Rat(1000, 10)],
      C |-> [massZn |-> Rat(50, 10), massMnO2 |-> Rat(30, 10)] ]

\* storeForPhysics(results): the localStorage after it
storeForPhysics(results, store) ==
    IF results.exists /\ Truthy(results.chargeQ)
    THEN [ store EXCEPT !.chemistry_results =
             [ exists |-> TRUE,
               chargeQ |-> JsonNumber(results.chargeQ),
               energyWh |-> JsonNumber(results.energyWh),
               current |-> JsonNumber(results.current),
               timestamp |-> results.timestamp ] ]
    ELSE store

\* calculate(), the input reading: the calculator with its fields set from
\* the input elements.  The mutant leaves out the || defaults.
ChemistryCalculatorUI_readInputsUndefaulted(c, inputs) ==
    [ c EXCEPT
      !.massZn = parseFloat(inputs.massZn),
      !.massMnO2 = parseFloat(inputs.massMnO2),
      !.molarMassZn = parseFloat(inputs.molarMassZn),
      !.molarMassMnO2 = parseFloat(inputs.molarMassMnO2),
      !.cellVoltage = parseFloat(inputs.voltage),
      !.electronsPerReaction = parseInt(inputs.electrons),
      !.resistance = parseFloat(inputs.resistance) ]
ChemistryCalculatorUI_readInputs(c, inputs) ==
    [ c EXCEPT
      !.massZn = OrElse(parseFloat(inputs.massZn), Zero),
      !.massMnO2 = OrElse(parseFloat(inputs.massMnO2), Zero),
      !.molarMassZn = OrElse(parseFloat(inputs.molarMassZn), MOLAR_MASS_ZN),
      !.molarMassMnO2 = OrElse(parseFloat(inputs.molarMassMnO2), MOLAR_MASS_MNO2),
      !.cellVoltage = OrElse(parseFloat(inputs.voltage), DEFAULT_VOLTAGE),
      !.electronsPerReaction = OrElse(parseInt(inputs.electrons), Int2Num(DEFAULT_ELECTRONS)),
      !.resistance = OrElse(parseFloat(inputs.resistance), Null) ]

\* calculate() at clock time t: the calculator after it
ChemistryCalculatorUI_calculate(c, inputs, t) ==
    ChemistryCalculator_calculate(ChemistryCalculatorUI_readInputs(c, inputs), t)

\* loadFromURL(), the input elements set from the calculator made of the URL
ChemistryCalculatorUI_inputsFrom(c, inputs) ==
    [ exists |-> TRUE,
      massZn |-> ToText(c.massZn),
      massMnO2 |-> ToText(c.massMnO2),
      molarMassZn |-> ToText(c.molarMassZn),
      molarMassMnO2 |-> ToText(c.molarMassMnO2),
      voltage |-> ToText(c.cellVoltage),
      electrons |-> ToText(c.electronsPerReaction),
      resistance |-> IF Truthy(c.resistance) THEN ToText(c.resistance)
                     ELSE inputs.resistance ]

\* toURLParams(): the query string as the parameters it holds, a parameter
\* left out being undefined
ChemistryCalculator_toURLParams(c) ==
    [ massZn |-> ToText(c.massZn),
      massMnO2 |-> ToText(c.massMnO2),
      molarMassZn |-> IF c.molarMassZn # MOLAR_MASS_ZN THEN ToText(c.molarMassZn) ELSE NoText,
      molarMassMnO2 |-> IF c.molarMassMnO2 # MOLAR_MASS_MNO2
                        THEN ToText(c.molarMassMnO2) ELSE NoText,
      voltage |-> IF c.cellVoltage # DEFAULT_VOLTAGE THEN ToText(c.cellVoltage) ELSE NoText,
      electrons |-> IF c.electronsPerReaction # Int2Num(DEFAULT_ELECTRONS)
                    THEN ToText(c.electronsPerReaction) ELSE NoText,
      resistance |-> IF Truthy(c.resistance) THEN ToText(c.resistance) ELSE NoText ]

\* DeepLinking.generateURL(params): the query string of the page with the
\* given parameters set, an empty value being skipped
DeepLinking_generateURL(search, params) ==
    [ key \in DOMAIN search |->
        IF params[key] # NoText /\ params[key] # << >> THEN params[key] ELSE search[key] ]

\* shareLink(): the query string of the link copied
ChemistryCalculatorUI_shareLink(c, search) ==
    DeepLinking_generateURL(search, ChemistryCalculator_toURLParams(c))

-----------------------------------------------------------------------------
(* physics.js: constants *)

\* Math.PI
PI == Num(1, 1, 1)

\* MU_0: 4 * Math.PI * 1e-7
MU_0 == Mul(Mul(Int2Num(4), PI), Rat(1, 10000000))

MU_R_AIR == 1
MU_R_FERRITE == 2000
MU_R_STEEL == 4000

CONDUCTOR_TYPES == {"straight-wire", "single-loop", "solenoid"}

\* a string-valued option or URL parameter that is not there
NoString == "<undefined>"

TruthyString(str) == str # NoString /\ str # ""

OrElseString(a, b) == IF TruthyString(a) THEN a ELSE b

DEFAULT_CURRENT == 1
DEFAULT_TURNS == 100
DEFAULT_RADIUS == Rat(1, 100)
DEFAULT_LENGTH == Rat(5, 100)
DEFAULT_DISTANCE == Rat(1, 100)
CM_PER_M == 100

-----------------------------------------------------------------------------
(* physics.js: class MagneticFieldCalculator *)

\* constructor(options).  The mutant keeps a radius, length or distance of 0
\* (?? for ||).
MagneticFieldCalculator_newKeepingZero(options) ==
    [ exists |-> TRUE,
      conductorType |-> OrElseString(options.conductorType, "solenoid"),
      current |-> OrElse(options.current, Int2Num(DEFAULT_CURRENT)),
      turns |-> OrElse(options.turns, Int2Num(DEFAULT_TURNS)),
      radius |-> OrElseNullish(options.radius, DEFAULT_RADIUS),
      length |-> OrElseNullish(options.length, DEFAULT_LENGTH),
      distance |-> OrElseNullish(options.distance, DEFAULT_DISTANCE),
      material |-> OrElseString(options.material, "air"),
      results |-> NoObject,
      workSteps |-> <<>> ]
MagneticFieldCalculator_new(options) ==
    [ exists |-> TRUE,
      conductorType |-> OrElseString(options.conductorType, "solenoid"),
      current |-> OrElse(options.current, Int2Num(DEFAULT_CURRENT)),
      turns |-> OrElse(options.turns, Int2Num(DEFAULT_TURNS)),
      radius |-> OrElse(options.radius, DEFAULT_RADIUS),
      length |-> OrElse(options.length, DEFAULT_LENGTH),
      distance |-> OrElse(options.distance, DEFAULT_DISTANCE),
      material |-> OrElseString(options.material, "air"),
      results |-> NoObject,
      workSteps |-> <<>> ]

\* getMu_r(): PERMEABILITY[material]?.value || 1.  The mutant knows no
\* material and always answers 1.
getMu_rAlwaysAir(material) == Int2Num(MU_R_AIR)
getMu_r(material) ==
    CASE material = "air" -> Int2Num(MU_R_AIR)
      [] material = "ferrite" -> Int2Num(MU_R_FERRITE)
      [] material = "steel" -> Int2Num(MU_R_STEEL)
      [] OTHER -> Int2Num(1)

\* calculateStraightWire(mu_0): B.  The mutant multiplies by the material's
\* permeability as the other two formulas do; the second divides by pi r.
calculateStraightWireWithMaterial(c, mu_0) ==
    Div(Mul(Mul(mu_0, getMu_r(c.material)), c.current), Mul(Mul(Int2Num(2), PI), c.distance))
calculateStraightWireHalfCircle(c, mu_0) ==
    Div(Mul(mu_0, c.current), Mul(PI, c.distance))
calculateStraightWire(c, mu_0) ==
    Div(Mul(mu_0, c.current), Mul(Mul(Int2Num(2), PI), c.distance))

\* calculateSingleLoop(mu_0, mu_r): B
calculateSingleLoop(c, mu_0, mu_r) ==
    Div(Mul(Mul(Mul(mu_0, mu_r), c.turns), c.current), Mul(Int2Num(2), c.radius))

\* calculateSolenoid(mu_0, mu_r): B.  The mutant is the field of one turn.
calculateSolenoidOneTurn(c, mu_0, mu_r) ==
    Div(Mul(Mul(mu_0, mu_r), c.current), c.length)
calculateSolenoid(c, mu_0, mu_r) ==
    Div(Mul(Mul(Mul(mu_0, mu_r), c.turns), c.current), c.length)

\* the titles of the work steps the three formulas push
PhysWorkSteps(branch) ==
    CASE branch = "straight-wire" ->
           << "Apply Biot-Savart law for straight wire", "Direction (Right-Hand Rule)" >>
      [] branch = "single-loop" ->
           << "Calculate field at center of circular coil",
              "Direction (Right-Hand Rule for Loops)" >>
      [] OTHER ->
           << "Apply solenoid formula", "Solenoid field properties", "Turns density (n)" >>

\* calculate(), the switch on conductorType: B, formula and description.
\* The first mutant rejects an unknown type (B is NaN, no formula); the
\* second sends single-loop to the solenoid formula.
DispatchRejectUnknown(c, mu_0, mu_r) ==
    CASE c.conductorType = "straight-wire" ->
           [ branch |-> "straight-wire", B |-> calculateStraightWire(c, mu_0),
             formula |-> "B = mu0 * I / (2 pi r)",
             description |-> "Magnetic field around an infinite straight conductor" ]
      [] c.conductorType = "single-loop" ->
           [ branch |-> "single-loop", B |-> calculateSingleLoop(c, mu_0, mu_r),
             formula |-> "B ~ mu0 * mu_r * N * I / (2r)",
             description |-> "Magnetic field at the center of a circular loop (or coil)" ]
      [] c.conductorType = "solenoid" ->
           [ branch |-> "solenoid", B |-> calculateSolenoid(c, mu_0, mu_r),
             formula |-> "B = mu0 * mu_r * N * I / L",
             description |-> "Magnetic field inside a solenoid (center approximation)" ]
      [] OTHER ->
           [ branch |-> "none", B |-> NaN, formula |-> "", description |-> "" ]
DispatchLoopAsSolenoid(c, mu_0, mu_r) ==
    CASE c.conductorType = "straight-wire" ->
           [ branch |-> "straight-wire", B |-> calculateStraightWire(c, mu_0),
             formula |-> "B = mu0 * I / (2 pi r)",
             description |-> "Magnetic field around an infinite straight conductor" ]
      [] OTHER ->
           [ branch |-> "solenoid", B |-> calculateSolenoid(c, mu_0, mu_r),
             formula |-> "B = mu0 * mu_r * N * I / L",
             description |-> "Magnetic field inside a solenoid (center approximation)" ]
Dispatch(c, mu_0, mu_r) ==
    CASE c.conductorType = "straight-wire" ->
           [ branch |-> "straight-wire", B |-> calculateStraightWire(c, mu_0),
             formula |-> "B = mu0 * I / (2 pi r)",
             description |-> "Magnetic field around an infinite straight conductor" ]
      [] c.conductorType = "single-loop" ->
           [ branch |-> "single-loop", B |-> calculateSingleLoop(c, mu_0, mu_r),
             formula |-> "B ~ mu0 * mu_r * N * I / (2r)",
             description |-> "Magnetic field at the center of a circular loop (or coil)" ]
      [] OTHER ->
           [ branch |-> "solenoid", B |-> calculateSolenoid(c, mu_0, mu_r),
             formula |-> "B = mu0 * mu_r * N * I / L",
             description |-> "Magnetic field inside a solenoid (center approximation)" ]

\* calculate() at clock time t: the calculator with this.results and
\* this.workSteps replaced.  The mutant leaves out `this.workSteps = []`.
MagneticFieldCalculator_calculateAccumulating(c, t) ==
    LET mu_r == getMu_r(c.material)
        mu_0 == MU_0
        r == Dispatch(c, mu_0, mu_r)
    IN  [ c EXCEPT
          !.workSteps = c.workSteps \o PhysWorkSteps(r.branch),
          !.results =
            [ exists |-> TRUE,
              B |-> r.B,
              B_mT |-> Mul(r.B, Int2Num(1000)),
              B_uT |-> Mul(r.B, Int2Num(1000000)),
              formula |-> r.formula,
              description |-> r.description,
              conductorType |-> c.conductorType,
              inputs |-> [ current |-> c.current, turns |-> c.turns,
                           radius |-> c.radius, length |-> c.length,
                           distance |-> c.distance, material |-> c.material,
                           mu_r |-> mu_r ],
              constants |-> [ mu_0 |-> mu_0, mu |-> Mul(mu_0, mu_r) ],
              timestamp |-> t ] ]
MagneticFieldCalculator_calculate(c, t) ==
    LET mu_r == getMu_r(c.material)
        mu_0 == MU_0
        r == Dispatch(c, mu_0, mu_r)
    IN  [ c EXCEPT
          !.workSteps = PhysWorkSteps(r.branch),
          !.results =
            [ exists |-> TRUE,
              B |-> r.B,
              B_mT |-> Mul(r.B, Int2Num(1000)),
              B_uT |-> Mul(r.B, Int2Num(1000000)),
              formula |-> r.formula,
              description |-> r.description,
              conductorType |-> c.conductorType,
              inputs |-> [ current |-> c.current, turns |-> c.turns,
                           radius |-> c.radius, length |-> c.length,
                           distance |-> c.distance, material |-> c.material,
                           mu_r |-> mu_r ],
              constants |-> [ mu_0 |-> mu_0, mu |-> Mul(mu_0, mu_r) ],
              timestamp |-> t ] ]

\* calculateAtDistances(distances): the calculator after the last distance
RECURSIVE MagneticFieldCalculator_calculateAtDistances(_, _, _)
MagneticFieldCalculator_calculateAtDistances(c, distances, t) ==
    IF distances = <<>> THEN c
    ELSE MagneticFieldCalculator_calculateAtDistances(
             MagneticFieldCalculator_calculate([c EXCEPT !.distance = Head(distances)], t),
             Tail(distances), t)

\* static fromURLParams(params)
MagneticFieldCalculator_fromURLParams(params) ==
    MagneticFieldCalculator_new(
        [ conductorType |-> OrElseString(params.type, "solenoid"),
          current |-> OrElse(parseFloat(params.current), Int2Num(DEFAULT_CURRENT)),
          turns |-> OrElse(parseInt(params.turns), Int2Num(DEFAULT_TURNS)),
          radius |-> OrElse(parseFloat(params.radius), DEFAULT_RADIUS),
          length |-> OrElse(parseFloat(params.length), DEFAULT_LENGTH),
          distance |-> OrElse(parseFloat(params.distance), DEFAULT_DISTANCE),
          material |-> OrElseString(params.material, "air") ])

-----------------------------------------------------------------------------
(* physics.js: class PhysicsCalculatorUI *)

\* calculate(), the input reading (radius, length and distance are typed in cm)
PhysicsCalculatorUI_readInputs(c, inputs) ==
    [ c EXCEPT
      !.conductorType = OrElseString(inputs.conductorType, "solenoid"),
      !.current = OrElse(parseFloat(inputs.current), Int2Num(1)),
      !.turns = OrElse(parseInt(inputs.turns), Int2Num(100)),
      !.radius = Div(OrElse(parseFloat(inputs.radius), Int2Num(1)), Int2Num(CM_PER_M)),
      !.length = Div(OrElse(parseFloat(inputs.length), Int2Num(5)), Int2Num(CM_PER_M)),
      !.distance = Div(OrElse(parseFloat(inputs.distance), Int2Num(1)), Int2Num(CM_PER_M)),
      !.material = OrElseString(inputs.material, "air") ]

\* calculate() at clock time t: the calculator after it
PhysicsCalculatorUI_calculate(c, inputs, t) ==
    MagneticFieldCalculator_calculate(PhysicsCalculatorUI_readInputs(c, inputs), t)

\* loadFromURL(), the input elements set from the calculator made of the URL
PhysicsCalculatorUI_inputsFrom(c) ==
    [ exists |-> TRUE,
      conductorType |-> c.conductorType,
      current |-> ToText(c.current),
      turns |-> ToText(c.turns),
      radius |-> ToText(Mul(c.radius, Int2Num(CM_PER_M))),
      length |-> ToText(Mul(c.length, Int2Num(CM_PER_M))),
      distance |-> ToText(Mul(c.distance, Int2Num(CM_PER_M))),
      material |-> c.material ]

\* importFromChemistry(): the input elements and the calculator after it.
\* A stored current that is truthy is written to the current input and the
\* UI calculates; otherwise nothing happens.
PhysicsCalculatorUI_importFromChemistry(c, inputs, store, t) ==
    LET chemResults == store.chemistry_results
    IN  IF chemResults.exists /\ Truthy(chemResults.current)
        THEN LET filled == [inputs EXCEPT !.current = ToText(chemResults.current)]
             IN  [ imported |-> TRUE, inputs |-> filled,
                   calculator |-> PhysicsCalculatorUI_calculate(c, filled, t) ]
        ELSE [ imported |-> FALSE, inputs |-> inputs, calculator |-> c ]

-----------------------------------------------------------------------------
(* The inputs offered to the stoichiometry engine *)

NatTexts(lo, hi) == {NatText(i) : i \in lo..hi}

\* options = {}
NoChemOptions ==
    [ massZn |-> Undefined, massMnO2 |-> Undefined, molarMassZn |-> Undefined,
      molarMassMnO2 |-> Undefined, electronsPerReaction |-> Undefined,
      cellVoltage |-> Undefined, resistance |-> Undefined ]

\* the option records handed to the constructor
ChemOptions ==
    [ massZn : {Int2Num(i) : i \in 0..MaxMass},
      massMnO2 : {Int2Num(i) : i \in 0..MaxMass} \cup {NonNumeric},
      molarMassZn : {Zero, Int2Num(1), Int2Num(-2), NonNumeric},
      molarMassMnO2 : {Zero, Rat(1, 2), Int2Num(-1)},
      electronsPerReaction : {Undefined, Int2Num(1)},
      cellVoltage : {Undefined, Rat(1, 2)},
      resistance : {Undefined, Zero, Int2Num(10), Int2Num(-10)} ]

\* the URL parameters handed to fromURLParams
ChemParams ==
    [ massZn : {NoText, <<"1">>},
      massMnO2 : NatTexts(1, 2),
      molarMassZn : {NoText, <<"0">>, <<"-", "2">>},
      molarMassMnO2 : {<<"0">>, <<"0", ".", "5">>},
      voltage : {NoText},
      electrons : {NoText, <<"1">>},
      resistance : {NoText, <<"1", "0">>} ]

\* what the input elements of the chemistry calculator may hold
ChemTexts ==
    [ massZn |-> NatTexts(1, MaxMass),
      massMnO2 |-> NatTexts(1, MaxMass),
      molarMassZn |-> {<<"0">>, <<"1">>, <<"-", "2">>, <<"a", "b", "c">>},
      molarMassMnO2 |-> {<<"0">>, <<"0", ".", "5">>},
      voltage |-> {<<>>, <<"0", ".", "5">>},
      electrons |-> {<<>>, <<"1">>},
      resistance |-> {<<>>, <<"1", "0">>} ]

\* what the page gives the input elements: the Zn mass may be left empty
ChemInputs ==
    [ exists : {TRUE}, massZn : {<<>>} \cup ChemTexts.massZn, massMnO2 : ChemTexts.massMnO2,
      molarMassZn : ChemTexts.molarMassZn, molarMassMnO2 : ChemTexts.molarMassMnO2,
      voltage : ChemTexts.voltage, electrons : ChemTexts.electrons,
      resistance : ChemTexts.resistance ]

-----------------------------------------------------------------------------
(* The inputs offered to the field engine *)

\* options = {}
NoPhysOptions ==
    [ conductorType |-> NoString, current |-> Undefined, turns |-> Undefined,
      radius |-> Undefined, length |-> Undefined, distance |-> Undefined,
      material |-> NoString ]

\* the option records handed to the constructor
PhysOptions ==
    [ conductorType : CONDUCTOR_TYPES \cup {"toroid"},
      current : {Int2Num(i) : i \in (-1)..MaxCurrent},
      turns : {Int2Num(200)},
      radius : {Zero, Rat(-2, 100)},
      length : {Zero, Rat(-2, 100)},
      distance : {Zero, Rat(-2, 100)},
      material : {"air", "ferrite", "steel", "wood"} ]

\* the URL parameters handed to fromURLParams (lengths in metres)
PhysParams ==
    [ type : {NoString, "straight-wire", "single-loop", "toroid"},
      current : {NoText, <<"0">>, <<"-", "2">>, <<"2">>},
      turns : {NoText, <<"2">>},
      radius : {<<"0">>, <<"0", ".", "0", "2">>},
      length : {<<"0">>, <<"0", ".", "0", "2">>},
      distance : {<<"0">>, <<"-", "0", ".", "0", "2">>},
      material : {NoString, "steel"} ]

\* what the input elements of the physics calculator may hold (lengths in cm)
PhysTexts ==
    [ conductorType |-> CONDUCTOR_TYPES \cup {""},
      current |-> {<<>>, <<"-", "2">>} \cup NatTexts(0, MaxCurrent),
      turns |-> {<<>>, <<"2">>},
      radius |-> {<<"0">>, <<"-", "2">>},
      length |-> {<<"0">>, <<"2">>},
      distance |-> {<<"0">>, <<"2">>},
      material |-> {"air", "ferrite"} ]

PhysInputs ==
    [ exists : {TRUE}, conductorType : PhysTexts.conductorType,
      current : PhysTexts.current, turns : PhysTexts.turns,
      radius : PhysTexts.radius, length : PhysTexts.length,
      distance : PhysTexts.distance, material : PhysTexts.material ]

\* the distance lists handed to calculateAtDistances
DistanceLists ==
    { <<Zero>>, <<Rat(2, 100), Zero>>, <<Rat(-2, 100), Rat(2, 100)>> }

\* the calculator c has run calculate()
Calculated(c) == c.exists /\ c.results.exists

-----------------------------------------------------------------------------
(* main.js: CONFIG, AppState, and the URLSearchParams and localStorage     *)
(* items it reads and writes.  A query string is the sequence of its       *)
(* decoded <<name, value>> pairs; a localStorage item is its raw text,     *)
(* "quoted" when the text is a JSON string literal.  localStorage itself   *)
(* is taken to be available: setItem and getItem do not throw.             *)

THEMES == {"dark", "light", "high-contrast"}

TEXT_SIZES == {"normal", "large"}

MODES == {"chemistry", "physics"}

DEFAULT_THEME == "dark"

DEFAULT_TEXT_SIZE == "normal"

DEFAULT_MODE == "chemistry"

\* localStorage.getItem of a key never written
NoItem == [exists |-> FALSE]

\* the raw text of an item written by hand or by another script
RawText(text) == [exists |-> TRUE, quoted |-> FALSE, text |-> text]

\* JSON.stringify of a string without quotes or backslashes: the text in quotes
JSON_stringify(str) == [exists |-> TRUE, quoted |-> TRUE, text |-> str]

URLSearchParams_has(params, name) ==
    \E i \in 1..Len(params) : params[i][1] = name

FirstOf(params, name) ==
    CHOOSE i \in 1..Len(params) :
        /\ params[i][1] = name
        /\ \A j \in 1..(i - 1) : params[j][1] # name

\* the first value given for the name, null when there is none
URLSearchParams_get(params, name) ==
    IF URLSearchParams_has(params, name)
    THEN params[FirstOf(params, name)][2]
    ELSE NoString

\* the first pair of that name takes the value and the other pairs of that
\* name are removed; without such a pair one is appended
URLSearchParams_set(params, name, value) ==
    IF URLSearchParams_has(params, name)
    THEN LET first == FirstOf(params, name)
             Other(pair) == pair[1] # name
         IN  SubSeq(params, 1, first - 1) \o << <<name, value>> >>
                 \o SelectSeq(SubSeq(params, first + 1, Len(params)), Other)
    ELSE Append(params, <<name, value>>)

AppState_save(store, key, value) ==
    [store EXCEPT ![key] = JSON_stringify(value)]

\* null for a missing or empty item and for one JSON.parse throws on
AppState_load(store, key) ==
    LET value == store[key]
    IN  IF ~value.exists \/ (~value.quoted /\ value.text = "")
        THEN NoString
        ELSE IF value.quoted THEN value.text ELSE NoString

AppState_applyTheme(state, store) ==
    [state |-> state, store |-> AppState_save(store, "theme", state.theme)]

AppState_applyTextSize(state, store) ==
    [state |-> state, store |-> AppState_save(store, "text_size", state.textSize)]

AppState_updateURL(state) ==
    [state EXCEPT !.search = URLSearchParams_set(state.search, "mode", state.mode)]

AppState_applyMode(state, store) ==
    [state |-> AppState_updateURL(state),
     store |-> AppState_save(store, "mode", state.mode)]

\* init() taking a URL value without looking it up in CONFIG
AppState_initUnchecked(store, search) ==
    LET loaded == [exists |-> TRUE,
                   theme |-> IF URLSearchParams_has(search, "theme")
                             THEN URLSearchParams_get(search, "theme")
                             ELSE OrElseString(AppState_load(store, "theme"), DEFAULT_THEME),
                   textSize |-> OrElseString(AppState_load(store, "text_size"), DEFAULT_TEXT_SIZE),
                   mode |-> IF URLSearchParams_has(search, "mode")
                            THEN URLSearchParams_get(search, "mode")
                            ELSE OrElseString(AppState_load(store, "mode"), DEFAULT_MODE),
                   search |-> search]
        themed == AppState_applyTheme(loaded, store)
        sized == AppState_applyTextSize(themed.state, themed.store)
    IN  AppState_applyMode(sized.state, sized.store)

AppState_init(store, search) ==
    LET theme == OrElseString(AppState_load(store, "theme"), DEFAULT_THEME)
        textSize == OrElseString(AppState_load(store, "text_size"), DEFAULT_TEXT_SIZE)
        mode == OrElseString(AppState_load(store, "mode"), DEFAULT_MODE)
        loaded == [exists |-> TRUE,
                   theme |-> IF /\ URLSearchParams_has(search, "theme")
                                /\ URLSearchParams_get(search, "theme") \in THEMES
                             THEN URLSearchParams_get(search, "theme")
                             ELSE theme,
                   textSize |-> textSize,
                   mode |-> IF /\ URLSearchParams_has(search, "mode")
                               /\ URLSearchParams_get(search, "mode") \in MODES
                            THEN URLSearchParams_get(search, "mode")
                            ELSE mode,
                   search |-> search]
        themed == AppState_applyTheme(loaded, store)
        sized == AppState_applyTextSize(themed.state, themed.store)
    IN  AppState_applyMode(sized.state, sized.store)

AppState_setTheme(state, store, theme) ==
    IF theme \in THEMES
    THEN AppState_applyTheme([state EXCEPT !.theme = theme], store)
    ELSE [state |-> state, store |-> store]

AppState_setTextSize(state, store, size) ==
    IF size \in TEXT_SIZES
    THEN AppState_applyTextSize([state EXCEPT !.textSize = size], store)
    ELSE [state |-> state, store |-> store]

AppState_toggleTextSize(state, store) ==
    AppState_setTextSize(state, store, IF state.textSize = "normal" THEN "large" ELSE "normal")

AppState_setMode(state, store, mode) ==
    IF mode \in MODES
    THEN AppState_applyMode([state EXCEPT !.mode = mode], store)
    ELSE [state |-> state, store |-> store]

-----------------------------------------------------------------------------
(* simulations.js: LimitingReagentLab and ScenarioManager.  A scenario is  *)
(* a record with the fields of both kinds of scenario, the ones its writer *)
(* does not set being undefined; the saved_scenarios item of localStorage  *)
(* is the array its JSON text stands for.                                  *)

KEEP_LAST == 10

LAB_MASS_ZN == 5

LAB_MASS_MNO2 == 10

\* array.slice(-n)
SliceLast(array, n) ==
    IF Len(array) <= n THEN array ELSE SubSeq(array, Len(array) - n + 1, Len(array))

\* Date.now().toString(36), for the instants of the model's clock
Base36(t) == <<"0", "1", "2", "3", "4", "5", "6", "7", "8", "9">>[t + 1]

\* what JSON.stringify and JSON.parse make of an array of scenarios
JSON_scenarios(array) ==
    [i \in 1..Len(array) |->
        [array[i] EXCEPT !.massZn = IF IsNumber(@) THEN JsonNumber(@) ELSE @,
                         !.massMnO2 = IF IsNumber(@) THEN JsonNumber(@) ELSE @]]

\* AppState.save('saved_scenarios', array)
SaveScenarios(store, array) ==
    [store EXCEPT !.saved_scenarios = [exists |-> TRUE, array |-> JSON_scenarios(array)]]

\* AppState.load('saved_scenarios') || []
LoadScenarios(store) ==
    IF store.saved_scenarios.exists THEN store.saved_scenarios.array ELSE << >>

\* update(): what the results panel shows
LimitingReagentLab_update(l) ==
    LET molesZn == Div(l.massZn, l.molarMassZn)
        molesMnO2 == Div(l.massMnO2, l.molarMassMnO2)
        requiredMnO2 == Mul(molesZn, Int2Num(2))
        isZnLimiting == Gt(requiredMnO2, molesMnO2)
    IN  [ l EXCEPT !.shown =
            IF isZnLimiting
            THEN [ limitingReagent |-> Zn,
                   znLeftover |-> Sub(molesZn, Div(molesMnO2, Int2Num(2))),
                   mno2Leftover |-> Zero ]
            ELSE [ limitingReagent |-> MnO2,
                   znLeftover |-> Zero,
                   mno2Leftover |-> Sub(molesMnO2, Mul(molesZn, Int2Num(2))) ] ]

\* new LimitingReagentLab(containerId)
LimitingReagentLab_new ==
    LimitingReagentLab_update(
        [ exists |-> TRUE,
          massZn |-> Int2Num(LAB_MASS_ZN), massMnO2 |-> Int2Num(LAB_MASS_MNO2),
          molarMassZn |-> MOLAR_MASS_ZN, molarMassMnO2 |-> MOLAR_MASS_MNO2,
          shown |-> NoObject ])

\* the input event of the Zn or the MnO2 slider
LimitingReagentLab_input(l, slider, text) ==
    LimitingReagentLab_update(
        IF slider = "zn"
        THEN [l EXCEPT !.massZn = parseFloat(text)]
        ELSE [l EXCEPT !.massMnO2 = parseFloat(text)])

LabScenario(l, t) ==
    [ name |-> NoString, data |-> NoObject, id |-> NoText,
      massZn |-> l.massZn, massMnO2 |-> l.massMnO2, timestamp |-> t ]

\* saveScenario() without the slice
LimitingReagentLab_saveScenarioUncapped(l, store, t) ==
    SaveScenarios(store, Append(LoadScenarios(store), LabScenario(l, t)))

\* saveScenario(): the localStorage after it
LimitingReagentLab_saveScenario(l, store, t) ==
    SaveScenarios(store, SliceLast(Append(LoadScenarios(store), LabScenario(l, t)), KEEP_LAST))

\* new ScenarioManager()
ScenarioManager_new(store) ==
    [exists |-> TRUE, scenarios |-> LoadScenarios(store)]

ManagerScenario(name, data, t) ==
    [ name |-> name, data |-> data, id |-> Base36(t),
      massZn |-> Undefined, massMnO2 |-> Undefined, timestamp |-> t ]

\* saveScenario(name, data): the manager and the localStorage after it
ScenarioManager_saveScenario(m, store, name, data, t) ==
    LET scenarios == Append(m.scenarios, ManagerScenario(name, data, t))
    IN  [ manager |-> [m EXCEPT !.scenarios = scenarios],
          store |-> SaveScenarios(store, scenarios) ]

\* deleteScenario(id)
ScenarioManager_deleteScenario(m, store, id) ==
    LET Kept(s) == s.id # id
        scenarios == SelectSeq(m.scenarios, Kept)
    IN  [ manager |-> [m EXCEPT !.scenarios = scenarios],
          store |-> SaveScenarios(store, scenarios) ]

-----------------------------------------------------------------------------
(* simulations.js: FieldMappingLab.  The probe is where the canvas was     *)
(* clicked, in pixels from the canvas's top left corner.                   *)

FIELD_LAB_CURRENT == 2

FIELD_LAB_TURNS == 100

FIELD_LAB_LENGTH == Rat(5, 100)

SOLENOID_HEIGHT == 60

\* the part of the centre field left at distance 0: Math.max(0, 0.3 - dist)
FALL_OFF == Rat(3, 10)

\* Math.sqrt of the square of a multiple of 0.01 up to 1
Math_sqrt(v) == CHOOSE r \in {Rat(k, 100) : k \in 0..100} : Mul(r, r) = v

Math_max(a, b) == IF Lt(a, b) THEN b ELSE a

\* calculateFieldMap()
FieldMappingLab_calculateFieldMap(l) ==
    [l EXCEPT !.bCenter = Div(Mul(Mul(MU_0, l.turns), l.current), l.length)]

\* updateProbeReading()
FieldMappingLab_updateProbeReading(l) ==
    LET width == Int2Num(l.canvas.width)
        height == Int2Num(l.canvas.height)
        centerX == Div(width, Int2Num(2))
        centerY == Div(height, Int2Num(2))
        solenoidWidth == Mul(width, Rat(5, 10))
        startX == Sub(centerX, Div(solenoidWidth, Int2Num(2)))
        endX == Add(centerX, Div(solenoidWidth, Int2Num(2)))
        half == Div(Int2Num(SOLENOID_HEIGHT), Int2Num(2))
        inside == /\ Gt(l.probeX, startX) /\ Lt(l.probeX, endX)
                  /\ Gt(l.probeY, Sub(centerY, half)) /\ Lt(l.probeY, Add(centerY, half))
        dx == Div(Sub(l.probeX, centerX), width)
        dy == Div(Sub(l.probeY, centerY), height)
        distFromCenter == Math_sqrt(Add(Mul(dx, dx), Mul(dy, dy)))
    IN  IF inside
        THEN [l EXCEPT !.probeB = l.bCenter, !.probeLocation = "inside solenoid"]
        ELSE [l EXCEPT !.probeB = Mul(l.bCenter, Math_max(Zero, Sub(FALL_OFF, distFromCenter))),
                       !.probeLocation = "outside solenoid"]

\* update(): drawing, readout and plot show the lab and change nothing of it
FieldMappingLab_update(l) == FieldMappingLab_calculateFieldMap(l)

\* new FieldMappingLab(containerId), the canvas sized by the page
FieldMappingLab_new(canvas) ==
    FieldMappingLab_update(
        [ exists |-> TRUE, canvas |-> canvas,
          current |-> Int2Num(FIELD_LAB_CURRENT), turns |-> Int2Num(FIELD_LAB_TURNS),
          length |-> FIELD_LAB_LENGTH, probeX |-> Zero, probeY |-> Zero,
          bCenter |-> Undefined, probeB |-> Undefined, probeLocation |-> NoString,
          fieldData |-> << >> ])

\* the input event of the current or the turns slider
FieldMappingLab_input(l, slider, text) ==
    FieldMappingLab_update(
        IF slider = "current"
        THEN [l EXCEPT !.current = parseFloat(text)]
        ELSE [l EXCEPT !.turns = parseInt(text)])

\* a click on the canvas, x and y being clientX - rect.left, clientY - rect.top
FieldMappingLab_click(l, x, y) ==
    FieldMappingLab_updateProbeReading([l EXCEPT !.probeX = Int2Num(x), !.probeY = Int2Num(y)])

\* recordDataPoint()
FieldMappingLab_recordDataPoint(l, t) ==
    IF l.probeB # Undefined
    THEN [l EXCEPT !.fieldData =
            Append(@, [ current |-> l.current, turns |-> l.turns, B |-> l.probeB,
                        location |-> l.probeLocation, timestamp |-> t ])]
    ELSE l

\* clearData()
FieldMappingLab_clearData(l) == [l EXCEPT !.fieldData = << >>]

-----------------------------------------------------------------------------
(* chemistry.js: HalfReactionAnimation.  pending counts the callbacks of   *)
(* animate() that requestAnimationFrame holds; of an electron only x and   *)
(* vx are kept, y and phase deciding nothing but the drawing.              *)

ELECTRON_COUNT == 8

ELECTRON_MARGIN == 50

\* new HalfReactionAnimation(canvasId), the canvas sized by the page
HalfReactionAnimation_new(width) ==
    [exists |-> TRUE, width |-> width, electrons |-> << >>, isRunning |-> FALSE, pending |-> 0]

\* animate(): a frame is drawn, the electrons move, and the next frame is
\* requested
HalfReactionAnimation_animate(a) ==
    IF ~a.isRunning
    THEN a
    ELSE [ a EXCEPT
           !.electrons =
              [ i \in 1..Len(a.electrons) |->
                  LET x == a.electrons[i].x + a.electrons[i].vx
                  IN  [ a.electrons[i] EXCEPT
                        !.x = IF x > a.width - ELECTRON_MARGIN THEN ELECTRON_MARGIN ELSE x ] ],
           !.pending = @ + 1 ]

\* start(electronCount), Math.random() giving every electron the place x
\* and the speed vx
HalfReactionAnimation_start(a, electronCount, x, vx) ==
    HalfReactionAnimation_animate(
        [ a EXCEPT !.isRunning = TRUE,
                   !.electrons = [i \in 1..electronCount |-> [x |-> x, vx |-> vx]] ])

\* stop()
HalfReactionAnimation_stop(a) == [a EXCEPT !.isRunning = FALSE]

\* the browser runs one requested callback of animate()
HalfReactionAnimation_frame(a) ==
    HalfReactionAnimation_animate([a EXCEPT !.pending = @ - 1])

-----------------------------------------------------------------------------
(* main.js: Utils.debounce.  The closure keeps timeout, the id of the     *)
(* timer set last; timers are the timers the browser holds for it, each   *)
(* with the arguments its later() closes over.  time is the browser's     *)
(* clock in milliseconds.  calls, cancelled, lastCall, fired and          *)
(* invocation record what happened: the calls made, the pending timers    *)
(* they cancelled, the most recent call, the invocations of func since    *)
(* that call and the last invocation.                                      *)

\* debounce(func, wait = 250)
DEBOUNCE_WAIT == 250

\* chemistry.js bindEvents: debounce(() => { this.calculate(); }, 300)
CALCULATE_WAIT == 300

\* the clock advances in steps that divide both waits
TIMER_RESOLUTION == 50

clearTimeout(timers, id) == {timer \in timers : timer.id # id}

\* Utils.debounce(func, wait): timeout is undefined (0: no timer has it)
Utils_debounce(wait) ==
    [ exists |-> TRUE, wait |-> wait, time |-> 0, timeout |-> 0, timers |-> {},
      calls |-> 0, cancelled |-> 0, fired |-> 0,
      lastCall |-> [time |-> 0, args |-> "none"],
      invocation |-> [time |-> 0, args |-> "none"] ]

\* executedFunction(...args) without its clearTimeout(timeout)
executedFunctionKeepingTimer(d, args) ==
    [ d EXCEPT
      !.timers = @ \cup {[id |-> d.calls + 1, due |-> d.time + d.wait, args |-> args]},
      !.timeout = d.calls + 1,
      !.calls = @ + 1,
      !.fired = 0,
      !.lastCall = [time |-> d.time, args |-> args] ]

\* executedFunction(...args): clearTimeout(timeout); timeout =
\* setTimeout(later, wait)
executedFunction(d, args) ==
    [ d EXCEPT
      !.timers = clearTimeout(@, d.timeout)
                   \cup {[id |-> d.calls + 1, due |-> d.time + d.wait, args |-> args]},
      !.timeout = d.calls + 1,
      !.calls = @ + 1,
      !.cancelled = IF \E timer \in d.timers : timer.id = d.timeout THEN @ + 1 ELSE @,
      !.fired = 0,
      !.lastCall = [time |-> d.time, args |-> args] ]

\* later(), run by the browser for the timer: clearTimeout(timeout);
\* func(...args)
later(d, timer) ==
    [ d EXCEPT
      !.timers = clearTimeout(@ \ {timer}, d.timeout),
      !.fired = @ + 1,
      !.invocation = [time |-> d.time, args |-> timer.args] ]

-----------------------------------------------------------------------------
(* The state machine *)

Args(via, arg) == [exists |-> TRUE, via |-> via, arg |-> arg]

Init ==
    /\ now = 0
    /\ chem = NoObject
    /\ chemArgs = NoObject
    /\ chemUI = NoObject
    /\ phys = NoObject
    /\ physArgs = NoObject
    /\ physUI = NoObject
    /\ storage = [chemistry_results |-> NoObject, theme |-> NoItem,
                  text_size |-> NoItem, mode |-> NoItem, saved_scenarios |-> NoItem]
    /\ held = NoObject
    /\ app = NoObject
    /\ lab = NoObject
    /\ scenarioManager = NoObject
    /\ chemLocation = NoObject
    /\ fieldLab = NoObject
    /\ animation = NoObject
    /\ debounced = NoObject

\* new Date() read at time t: the clock never runs backwards
ReadClock(t) ==
    /\ t \in now..MaxClock
    /\ now' = t

\* new ChemistryCalculator(options)
ChemNew(options) ==
    /\ ~chem.exists
    /\ chem' = ChemistryCalculator_new(options)
    /\ chemArgs' = Args("constructor", options)
    /\ UNCHANGED <<now, chemUI, storage, physVars>>

\* ChemistryCalculator.fromURLParams(params)
ChemFromURLParams(params) ==
    /\ ~chem.exists
    /\ chem' = ChemistryCalculator_fromURLParams(params)
    /\ chemArgs' = Args("fromURLParams", params)
    /\ UNCHANGED <<now, chemUI, storage, physVars>>

\* calculator.calculate() on a calculator that no UI owns
ChemCalculate(t) ==
    /\ chem.exists /\ ~chemUI.exists
    /\ ReadClock(t)
    /\ chem' = ChemistryCalculator_calculate(chem, t)
    /\ UNCHANGED <<chemArgs, chemUI, storage, physVars>>

\* new ChemistryCalculatorUI(), the page's URL holding no massZn: the input
\* elements keep what the page gave them
ChemUINew(inputs) ==
    /\ ~chem.exists
    /\ chem' = ChemistryCalculator_new(NoChemOptions)
    /\ chemArgs' = Args("constructor", NoChemOptions)
    /\ chemUI' = inputs
    /\ UNCHANGED <<now, storage, physVars>>

\* new ChemistryCalculatorUI(), the page's URL holding massZn: loadFromURL
\* replaces the calculator, fills the input elements and calculates
ChemUINewFromURL(resistance0, params, t) ==
    /\ ~chem.exists
    /\ params.massZn # NoText
    /\ ReadClock(t)
    /\ LET c == ChemistryCalculator_fromURLParams(params)
           inputs == ChemistryCalculatorUI_inputsFrom(c, [resistance |-> resistance0])
           calculated == ChemistryCalculatorUI_calculate(c, inputs, t)
       IN  /\ chem' = calculated
           /\ chemArgs' = Args("fromURLParams", params)
           /\ chemUI' = inputs
           /\ storage' = storeForPhysics(calculated.results, storage)
    /\ UNCHANGED physVars

\* an input element of the chemistry calculator is given the value text and
\* the UI's calculate() runs (input event, Enter key, Calculate button)
ChemUIInput(field, text, t) ==
    /\ chemUI.exists
    /\ ReadClock(t)
    /\ LET inputs == [chemUI EXCEPT ![field] = text]
           calculated == ChemistryCalculatorUI_calculate(chem, inputs, t)
       IN  /\ chem' = calculated
           /\ chemArgs' = Args("ui", inputs)
           /\ chemUI' = inputs
           /\ storage' = storeForPhysics(calculated.results, storage)
    /\ UNCHANGED physVars

\* loadPreset(presetKey)
ChemUILoadPreset(presetKey, t) ==
    /\ chemUI.exists
    /\ presetKey \in DOMAIN CHEMISTRY_PRESETS
    /\ ReadClock(t)
    /\ LET preset == CHEMISTRY_PRESETS[presetKey]
           inputs == [chemUI EXCEPT !.massZn = ToText(preset.massZn),
                                    !.massMnO2 = ToText(preset.massMnO2)]
           calculated == ChemistryCalculatorUI_calculate(chem, inputs, t)
       IN  /\ chem' = calculated
           /\ chemArgs' = Args("ui", inputs)
           /\ chemUI' = inputs
           /\ storage' = storeForPhysics(calculated.results, storage)
    /\ UNCHANGED physVars

Clock == 0..MaxClock

ChemNext ==
    \/ \E options \in ChemOptions : ChemNew(options)
    \/ \E params \in ChemParams : ChemFromURLParams(params)
    \/ \E t \in Clock : ChemCalculate(t)
    \/ \E inputs \in ChemInputs : ChemUINew(inputs)
    \/ \E field \in DOMAIN ChemTexts : \E text \in ChemTexts[field], t \in Clock :
          ChemUIInput(field, text, t)
    \/ \E presetKey \in {"A", "B"}, t \in Clock : ChemUILoadPreset(presetKey, t)

\* the stoichiometry engine, made by the constructor, from URL parameters or
\* by the calculator UI
ChemSpec == Init /\ [][ChemNext]_vars

\* new MagneticFieldCalculator(options)
PhysNew(options) ==
    /\ ~phys.exists
    /\ phys' = MagneticFieldCalculator_new(options)
    /\ physArgs' = Args("constructor", options)
    /\ UNCHANGED <<now, physUI, chemVars>>

\* MagneticFieldCalculator.fromURLParams(params)
PhysFromURLParams(params) ==
    /\ ~phys.exists
    /\ phys' = MagneticFieldCalculator_fromURLParams(params)
    /\ physArgs' = Args("fromURLParams", params)
    /\ UNCHANGED <<now, physUI, chemVars>>

\* calculator.calculate() on a calculator that no UI owns
PhysCalculate(t) ==
    /\ phys.exists /\ ~physUI.exists
    /\ ReadClock(t)
    /\ phys' = MagneticFieldCalculator_calculate(phys, t)
    /\ UNCHANGED <<physArgs, physUI, chemVars>>

\* calculator.calculateAtDistances(distances) on a calculator that no UI owns
PhysCalculateAtDistances(distances, t) ==
    /\ phys.exists /\ ~physUI.exists
    /\ ReadClock(t)
    /\ phys' = MagneticFieldCalculator_calculateAtDistances(phys, distances, t)
    /\ physArgs' = Args("calculateAtDistances", distances)
    /\ UNCHANGED <<physUI, chemVars>>

\* new PhysicsCalculatorUI(), the page's URL holding neither current nor
\* type: init() calculates from what the page gave the input elements
PhysUINew(inputs, t) ==
    /\ ~phys.exists
    /\ ReadClock(t)
    /\ phys' = PhysicsCalculatorUI_calculate(
                   MagneticFieldCalculator_new(NoPhysOptions), inputs, t)
    /\ physArgs' = Args("ui", inputs)
    /\ physUI' = inputs
    /\ UNCHANGED chemVars

\* new PhysicsCalculatorUI(), the page's URL holding current or type:
\* loadFromURL replaces the calculator, fills the input elements and
\* calculates again
PhysUINewFromURL(params, t) ==
    /\ ~phys.exists
    /\ params.current # NoText \/ params.type # NoString
    /\ ReadClock(t)
    /\ LET c == MagneticFieldCalculator_fromURLParams(params)
           inputs == PhysicsCalculatorUI_inputsFrom(c)
       IN  /\ phys' = PhysicsCalculatorUI_calculate(c, inputs, t)
           /\ physArgs' = Args("fromURLParams", params)
           /\ physUI' = inputs
    /\ UNCHANGED chemVars

\* an input element of the physics calculator is given the value text and
\* the UI's calculate() runs (input and change events)
PhysUIInput(field, text, t) ==
    /\ physUI.exists
    /\ ReadClock(t)
    /\ LET inputs == [physUI EXCEPT ![field] = text]
       IN  /\ phys' = PhysicsCalculatorUI_calculate(phys, inputs, t)
           /\ physArgs' = Args("ui", inputs)
           /\ physUI' = inputs
    /\ UNCHANGED chemVars

PhysNext ==
    \/ \E options \in PhysOptions : PhysNew(options)
    \/ \E params \in PhysParams : PhysFromURLParams(params)
    \/ \E t \in Clock : PhysCalculate(t)
    \/ \E distances \in DistanceLists, t \in Clock :
          PhysCalculateAtDistances(distances, t)
    \/ \E inputs \in PhysInputs, t \in Clock : PhysUINew(inputs, t)
    \/ \E field \in DOMAIN PhysTexts : \E text \in PhysTexts[field], t \in Clock :
          PhysUIInput(field, text, t)

\* the magnetic field engine, made by the constructor, from URL parameters
\* or by the calculator UI
PhysSpec == Init /\ [][PhysNext]_vars

-----------------------------------------------------------------------------
(* Result objects in the hands of a caller.  calculate() returns          *)
(* this.results, and getWorkSteps() returns this.workSteps: the caller     *)
(* holds the very objects the calculator points at, until the calculator   *)
(* is given new ones.                                                      *)

\* what calculate() and getWorkSteps() hand out
Returned(c) == [results |-> c.results, workSteps |-> c.workSteps]

\* a caller takes the objects of the calculator c of the engine owner
Keep(owner, c) ==
    [ exists |-> TRUE,
      owner |-> owner,          \* the engine of the calculator
      alias |-> TRUE,           \* the objects are the ones the calculator points at
      gone |-> FALSE,           \* the calculator has been replaced by a new one
      object |-> Returned(c),   \* what the held objects hold
      returned |-> Returned(c)  \* what they held when they were handed out
    ]

\* the held objects after calculate() has made the calculator c1: the
\* results are a new object literal and the steps a new array, so that the
\* held ones are the calculator's no longer.  The mutant refills the
\* objects the calculator has (Object.assign, length = 0).
HeldAfterCalculateInPlace(h, owner, c1) ==
    IF h.exists /\ h.owner = owner /\ h.alias
    THEN [h EXCEPT !.object = Returned(c1)]
    ELSE h
HeldAfterCalculate(h, owner, c1) ==
    IF h.exists /\ h.owner = owner
    THEN [h EXCEPT !.alias = FALSE]
    ELSE h

\* the options of the two calculators a caller builds: preset A with a
\* load or without
SnapChemOptions ==
    { [NoChemOptions EXCEPT !.massZn = Int2Num(1), !.massMnO2 = Int2Num(2),
                            !.resistance = r] : r \in {Undefined, Int2Num(10)} }

SnapPhysOptions ==
    { [NoPhysOptions EXCEPT !.conductorType = type] : type \in CONDUCTOR_TYPES }

SnapDistances == << Rat(2, 100), Rat(1, 100) >>

\* new ChemistryCalculator(options), also in place of an earlier calculator
SnapChemNew(options) ==
    /\ chem' = ChemistryCalculator_new(options)
    /\ chemArgs' = Args("constructor", options)
    /\ held' = IF held.exists /\ held.owner = "chem"
               THEN [held EXCEPT !.alias = FALSE, !.gone = TRUE] ELSE held
    /\ UNCHANGED <<now, chemUI, storage, phys, physArgs, physUI, app, simVars>>

\* calculator.resistance = resistance: results.inputs is a copy of the
\* fields, which no assignment to the calculator reaches
SnapChemSet(resistance) ==
    /\ chem.exists
    /\ chem' = [chem EXCEPT !.resistance = resistance]
    /\ UNCHANGED <<now, chemArgs, chemUI, storage, phys, physArgs, physUI, held, app, simVars>>

\* calculator.calculate()
SnapChemCalculate(t) ==
    /\ chem.exists
    /\ ReadClock(t)
    /\ chem' = ChemistryCalculator_calculate(chem, t)
    /\ held' = HeldAfterCalculate(held, "chem", chem')
    /\ UNCHANGED <<chemArgs, chemUI, storage, phys, physArgs, physUI, app, simVars>>

\* the caller keeps what the last calculate() returned, and getWorkSteps()
SnapChemKeep ==
    /\ Calculated(chem)
    /\ held' = Keep("chem", chem)
    /\ UNCHANGED <<now, chem, chemArgs, chemUI, storage, phys, physArgs, physUI, app, simVars>>

\* new MagneticFieldCalculator(options), also in place of an earlier one
SnapPhysNew(options) ==
    /\ phys' = MagneticFieldCalculator_new(options)
    /\ physArgs' = Args("constructor", options)
    /\ held' = IF held.exists /\ held.owner = "phys"
               THEN [held EXCEPT !.alias = FALSE, !.gone = TRUE] ELSE held
    /\ UNCHANGED <<now, physUI, chem, chemArgs, chemUI, storage, app, simVars>>

\* calculator.calculate()
SnapPhysCalculate(t) ==
    /\ phys.exists
    /\ ReadClock(t)
    /\ phys' = MagneticFieldCalculator_calculate(phys, t)
    /\ held' = HeldAfterCalculate(held, "phys", phys')
    /\ UNCHANGED <<physArgs, physUI, chem, chemArgs, chemUI, storage, app, simVars>>

\* calculator.calculateAtDistances(distances)
SnapPhysCalculateAtDistances(distances, t) ==
    /\ phys.exists
    /\ ReadClock(t)
    /\ phys' = MagneticFieldCalculator_calculateAtDistances(phys, distances, t)
    /\ physArgs' = Args("calculateAtDistances", distances)
    /\ held' = HeldAfterCalculate(held, "phys", phys')
    /\ UNCHANGED <<physUI, chem, chemArgs, chemUI, storage, app, simVars>>

SnapPhysKeep ==
    /\ Calculated(phys)
    /\ held' = Keep("phys", phys)
    /\ UNCHANGED <<now, phys, physArgs, physUI, chem, chemArgs, chemUI, storage, app, simVars>>

SnapNext ==
    \/ \E options \in SnapChemOptions : SnapChemNew(options)
    \/ \E resistance \in {Null, Int2Num(10), Int2Num(-10)} : SnapChemSet(resistance)
    \/ \E t \in Clock : SnapChemCalculate(t)
    \/ SnapChemKeep
    \/ \E options \in SnapPhysOptions : SnapPhysNew(options)
    \/ \E t \in Clock : SnapPhysCalculate(t)
    \/ \E t \in Clock : SnapPhysCalculateAtDistances(SnapDistances, t)
    \/ SnapPhysKeep

\* both engines in the hands of one caller, who builds calculators,
\* calculates and keeps what was returned
SnapSpec == Init /\ [][SnapNext]_vars

-----------------------------------------------------------------------------
(* The chemistry calculator page and the physics simulator page of one     *)
(* browser, which share localStorage                                       *)

\* what the chemistry page gives its input elements: preset A's MnO2, the
\* Zn mass empty or 1 g, with a 10 ohm load or none
PipeChemInputs ==
    [ exists : {TRUE}, massZn : {<<>>, <<"1">>}, massMnO2 : {<<"2">>},
      molarMassZn : {<<"0">>}, molarMassMnO2 : {<<"0">>},
      voltage : {<<>>, <<"0", ".", "5">>}, electrons : {<<>>},
      resistance : {<<>>, <<"1", "0">>} ]

PipeChemTexts ==
    [ massZn |-> {<<>>, <<"1">>},
      voltage |-> {<<>>, <<"0", ".", "5">>},
      resistance |-> {<<>>, <<"1", "0">>} ]

\* what the physics page gives its input elements
PipePhysInputs ==
    [ exists : {TRUE}, conductorType : {"solenoid"}, current : {<<"2">>},
      turns : {<<"2", "0", "0">>}, radius : {<<"1">>}, length : {<<"5">>},
      distance : {<<"1">>}, material : {"air"} ]

\* the Import from Chemistry button
PhysUIImportFromChemistry(t) ==
    /\ physUI.exists
    /\ LET after == PhysicsCalculatorUI_importFromChemistry(phys, physUI, storage, t)
       IN  IF after.imported
           THEN /\ ReadClock(t)
                /\ phys' = after.calculator
                /\ physArgs' = Args("importFromChemistry", storage.chemistry_results)
                /\ physUI' = after.inputs
           ELSE UNCHANGED <<now, phys, physArgs, physUI>>
    /\ UNCHANGED <<chem, chemArgs, chemUI, storage, held, app, simVars>>

PipeNext ==
    \/ \E inputs \in PipeChemInputs : ChemUINew(inputs)
    \/ \E field \in DOMAIN PipeChemTexts : \E text \in PipeChemTexts[field], t \in Clock :
          ChemUIInput(field, text, t)
    \/ \E inputs \in PipePhysInputs, t \in Clock : PhysUINew(inputs, t)
    \/ \E t \in Clock : PhysUIImportFromChemistry(t)

PipeSpec == Init /\ [][PipeNext]_vars


-----------------------------------------------------------------------------
(* The application shell: a page of the site loaded under a URL, with what *)
(* localStorage holds from before                                          *)

\* what localStorage may hold under theme and mode when a page loads:
\* values AppState saved, values no list has, and text that is not JSON
StoredThemes ==
    {NoItem, JSON_stringify("light"), JSON_stringify("sepia"), JSON_stringify("")}

StoredModes ==
    {NoItem, JSON_stringify("chemistry"), JSON_stringify("physics"),
     JSON_stringify("quantum"), RawText("physics")}

\* the query strings a page is opened with
Searches ==
    { << >>,
      << <<"mode", "physics">> >>,
      << <<"mode", "quantum">> >>,
      << <<"theme", "high-contrast">> >>,
      << <<"theme", "light">>, <<"mode", "physics">> >>,
      << <<"massZn", "5">>, <<"mode", "chemistry">>, <<"theme", "neon">> >>,
      << <<"mode", "quantum">>, <<"current", "2">>, <<"mode", "physics">> >>,
      << <<"current", "2">>, <<"turns", "200">> >> }

StoredTextSizes == {NoItem, JSON_stringify("huge")}

\* AppState with what init() was given and the call, with its argument,
\* made last
App(via, arg, state, store, search) ==
    [exists |-> TRUE, theme |-> state.theme, textSize |-> state.textSize,
     mode |-> state.mode, search |-> state.search,
     via |-> via, arg |-> arg, given |-> [store |-> store, search |-> search]]

\* an earlier session of this origin left items in localStorage
EarlierSession(theme, textSize, mode) ==
    /\ ~app.exists
    /\ storage.theme = NoItem /\ storage.text_size = NoItem /\ storage.mode = NoItem
    /\ theme # NoItem \/ textSize # NoItem \/ mode # NoItem
    /\ storage' = [storage EXCEPT !.theme = theme, !.text_size = textSize, !.mode = mode]
    /\ UNCHANGED <<now, chem, chemArgs, chemUI, phys, physArgs, physUI, held, app, simVars>>

\* DOMContentLoaded of a page opened under the query string
AppInit(search) ==
    /\ ~app.exists
    /\ LET after == AppState_init(storage, search)
       IN  /\ app' = App("init", NoString, after.state, storage, search)
           /\ storage' = after.store
    /\ UNCHANGED <<now, chem, chemArgs, chemUI, phys, physArgs, physUI, held, simVars>>

\* a theme button
AppSetTheme(theme) ==
    /\ app.exists
    /\ LET after == AppState_setTheme(app, storage, theme)
       IN  /\ app' = App("setTheme", theme, after.state, app.given.store, app.given.search)
           /\ storage' = after.store
    /\ UNCHANGED <<now, chem, chemArgs, chemUI, phys, physArgs, physUI, held, simVars>>

\* a mode button
AppSetMode(mode) ==
    /\ app.exists
    /\ LET after == AppState_setMode(app, storage, mode)
       IN  /\ app' = App("setMode", mode, after.state, app.given.store, app.given.search)
           /\ storage' = after.store
    /\ UNCHANGED <<now, chem, chemArgs, chemUI, phys, physArgs, physUI, held, simVars>>

\* the text size buttons
AppSetTextSize(size) ==
    /\ app.exists
    /\ LET after == AppState_setTextSize(app, storage, size)
       IN  /\ app' = App("setTextSize", size, after.state, app.given.store, app.given.search)
           /\ storage' = after.store
    /\ UNCHANGED <<now, chem, chemArgs, chemUI, phys, physArgs, physUI, held, simVars>>

\* the text size toggle
AppToggleTextSize ==
    /\ app.exists
    /\ LET after == AppState_toggleTextSize(app, storage)
       IN  /\ app' = App("toggleTextSize", NoString, after.state,
                         app.given.store, app.given.search)
           /\ storage' = after.store
    /\ UNCHANGED <<now, chem, chemArgs, chemUI, phys, physArgs, physUI, held, simVars>>

AppNext ==
    \/ \E theme \in StoredThemes, textSize \in StoredTextSizes, mode \in StoredModes :
          EarlierSession(theme, textSize, mode)
    \/ \E search \in Searches : AppInit(search)
    \/ \E theme \in THEMES \cup {"sepia"} : AppSetTheme(theme)
    \/ \E size \in TEXT_SIZES \cup {"huge"} : AppSetTextSize(size)
    \/ AppToggleTextSize
    \/ \E mode \in MODES \cup {"quantum"} : AppSetMode(mode)

AppSpec == Init /\ [][AppNext]_vars

-----------------------------------------------------------------------------
(* The virtual-lab page: the LimitingReagentLab and the ScenarioManager of *)
(* one page, with the scenarios localStorage holds from before             *)

\* saveScenario() calls followed in one behaviour
MaxSaves == 3

\* what earlier sessions left under saved_scenarios: nine scenarios of the
\* lab, or twelve of the manager, which keeps no cap
EarlierLabScenarios ==
    [i \in 1..9 |->
        [ name |-> NoString, data |-> NoObject, id |-> NoText,
          massZn |-> Int2Num(i), massMnO2 |-> Int2Num(LAB_MASS_MNO2), timestamp |-> 0 ]]

EarlierManagerScenarios ==
    [i \in 1..12 |->
        [ name |-> "earlier", data |-> [massZn |-> Int2Num(i)], id |-> Base36(0),
          massZn |-> Undefined, massMnO2 |-> Undefined, timestamp |-> 0 ]]

\* the lab with what localStorage held when it was built and the scenarios
\* it has saved since
Lab(l, found, saved) ==
    [ exists |-> TRUE, massZn |-> l.massZn, massMnO2 |-> l.massMnO2,
      molarMassZn |-> l.molarMassZn, molarMassMnO2 |-> l.molarMassMnO2,
      shown |-> l.shown, found |-> found, saved |-> saved ]

\* the manager with the scenarios it has saved and the ids it has deleted
Manager(m, saved, deleted) ==
    [exists |-> TRUE, scenarios |-> m.scenarios, saved |-> saved, deleted |-> deleted]

EarlierScenarios(array) ==
    /\ ~lab.exists /\ ~scenarioManager.exists
    /\ storage.saved_scenarios = NoItem
    /\ storage' = SaveScenarios(storage, array)
    /\ UNCHANGED <<now, chem, chemArgs, chemUI, phys, physArgs, physUI, held, app, simVars>>

\* DOMContentLoaded of a page with the limiting-reagent-lab container
LabNew ==
    /\ ~lab.exists
    /\ lab' = Lab(LimitingReagentLab_new, LoadScenarios(storage), << >>)
    /\ UNCHANGED <<now, chem, chemArgs, chemUI, phys, physArgs, physUI, held, app,
                   storage, scenarioManager, chemLocation,
                   fieldLab, animation, debounced>>

\* a slider of the lab is moved
LabInput(slider, text) ==
    /\ lab.exists
    /\ lab' = LimitingReagentLab_input(lab, slider, text)
    /\ UNCHANGED <<now, chem, chemArgs, chemUI, phys, physArgs, physUI, held, app,
                   storage, scenarioManager, chemLocation,
                   fieldLab, animation, debounced>>

\* the lab's saveScenario()
LabSaveScenario(t) ==
    /\ lab.exists
    /\ Len(lab.saved) < MaxSaves
    /\ ReadClock(t)
    /\ storage' = LimitingReagentLab_saveScenario(lab, storage, t)
    /\ lab' = [lab EXCEPT !.saved = Append(@, LabScenario(lab, t))]
    /\ UNCHANGED <<chem, chemArgs, chemUI, phys, physArgs, physUI, held, app,
                   scenarioManager, chemLocation,
                   fieldLab, animation, debounced>>

\* DOMContentLoaded: window.scenarioManager = new ScenarioManager()
ManagerNew ==
    /\ ~scenarioManager.exists
    /\ scenarioManager' = Manager(ScenarioManager_new(storage), << >>, {})
    /\ UNCHANGED <<now, chem, chemArgs, chemUI, phys, physArgs, physUI, held, app,
                   storage, lab, chemLocation,
                   fieldLab, animation, debounced>>

\* scenarioManager.saveScenario(name, data)
ManagerSaveScenario(name, data, t) ==
    /\ scenarioManager.exists
    /\ Len(scenarioManager.saved) < MaxSaves
    /\ ReadClock(t)
    /\ LET after == ScenarioManager_saveScenario(scenarioManager, storage, name, data, t)
       IN  /\ scenarioManager' =
                 [after.manager EXCEPT !.saved = Append(@, ManagerScenario(name, data, t))]
           /\ storage' = after.store
    /\ UNCHANGED <<chem, chemArgs, chemUI, phys, physArgs, physUI, held, app, lab, chemLocation,
                   fieldLab, animation, debounced>>

\* scenarioManager.deleteScenario(id)
ManagerDeleteScenario(id) ==
    /\ scenarioManager.exists
    /\ LET after == ScenarioManager_deleteScenario(scenarioManager, storage, id)
       IN  /\ scenarioManager' = [after.manager EXCEPT !.deleted = @ \cup {id}]
           /\ storage' = after.store
    /\ UNCHANGED <<now, chem, chemArgs, chemUI, phys, physArgs, physUI, held, app, lab, chemLocation,
                   fieldLab, animation, debounced>>

\* the lab alone, saving
LabSaveNext ==
    \/ \E array \in {EarlierLabScenarios, EarlierManagerScenarios} : EarlierScenarios(array)
    \/ LabNew
    \/ \E text \in {<<"1">>, <<"7", ".", "5">>} : LabInput("zn", text)
    \/ \E t \in Clock : LabSaveScenario(t)

LabSaveSpec == Init /\ [][LabSaveNext]_vars

\* the lab alone, its sliders moved: whole grams, and the masses of an
\* exact 1:2 mixture
LabZnTexts == NatTexts(0, 9) \cup {<<"6", ".", "5", "3", "8">>}

LabMnO2Texts == NatTexts(0, 9) \cup {<<"1", "7", ".", "3", "8", "7", "2">>}

LabNext ==
    \/ LabNew
    \/ \E text \in LabZnTexts : LabInput("zn", text)
    \/ \E text \in LabMnO2Texts : LabInput("mno2", text)

LabSpec == Init /\ [][LabNext]_vars

\* the lab and the manager of one page
ScenarioNext ==
    \/ LabNew
    \/ \E text \in {<<"1">>} : LabInput("zn", text)
    \/ \E t \in Clock : LabSaveScenario(t)
    \/ ManagerNew
    \/ \E t \in Clock : ManagerSaveScenario("mine", [massZn |-> Int2Num(LAB_MASS_ZN)], t)
    \/ \E t \in Clock : ManagerDeleteScenario(Base36(t))

ScenarioSpec == Init /\ [][ScenarioNext]_vars

-----------------------------------------------------------------------------
(* The chemistry page opened under a URL, its inputs edited and its link   *)
(* shared                                                                  *)

NoChemParams ==
    [ massZn |-> NoText, massMnO2 |-> NoText, molarMassZn |-> NoText,
      molarMassMnO2 |-> NoText, voltage |-> NoText, electrons |-> NoText,
      resistance |-> NoText ]

\* the query strings the chemistry page is opened with
ShareSearches ==
    { NoChemParams,
      [NoChemParams EXCEPT !.voltage = <<"3">>],
      [NoChemParams EXCEPT !.massZn = <<"5">>, !.massMnO2 = <<"1", "0">>],
      [NoChemParams EXCEPT !.massZn = <<"5">>, !.massMnO2 = <<"1", "0">>,
                           !.voltage = <<"3">>, !.resistance = <<"1", "0">>] }

\* what the page gives its input elements
ShareInputs ==
    [ exists |-> TRUE, massZn |-> <<"1">>, massMnO2 |-> <<"2">>,
      molarMassZn |-> <<"6", "5", ".", "3", "8">>,
      molarMassMnO2 |-> <<"8", "6", ".", "9", "3", "6">>,
      voltage |-> <<"1", ".", "5">>, electrons |-> <<"2">>, resistance |-> << >> ]

\* what the user types into them
ShareTexts ==
    [ massZn |-> {<<"2">>},
      voltage |-> {<<"1", ".", "5">>, <<"3">>},
      resistance |-> {<< >>, <<"1", "0">>} ]

\* the calculator's inputs
InputsOf(c) ==
    [ massZn |-> c.massZn, massMnO2 |-> c.massMnO2, molarMassZn |-> c.molarMassZn,
      molarMassMnO2 |-> c.molarMassMnO2, cellVoltage |-> c.cellVoltage,
      electronsPerReaction |-> c.electronsPerReaction, resistance |-> c.resistance ]

\* DOMContentLoaded of the chemistry page opened under the query string:
\* new ChemistryCalculatorUI(), whose loadFromURL() acts when the URL has massZn
ChemPageOpen(search, t) ==
    /\ ~chem.exists
    /\ chemLocation' = [exists |-> TRUE, search |-> search, shared |-> NoObject]
    /\ IF search.massZn # NoText
       THEN /\ ReadClock(t)
            /\ LET c == ChemistryCalculator_fromURLParams(search)
                   inputs == ChemistryCalculatorUI_inputsFrom(c, ShareInputs)
                   calculated == ChemistryCalculatorUI_calculate(c, inputs, t)
               IN  /\ chem' = calculated
                   /\ chemArgs' = Args("fromURLParams", search)
                   /\ chemUI' = inputs
                   /\ storage' = storeForPhysics(calculated.results, storage)
       ELSE /\ t = now
            /\ chem' = ChemistryCalculator_new(NoChemOptions)
            /\ chemArgs' = Args("constructor", NoChemOptions)
            /\ chemUI' = ShareInputs
            /\ UNCHANGED <<now, storage>>
    /\ UNCHANGED <<phys, physArgs, physUI, held, app, lab, scenarioManager,
                   fieldLab, animation, debounced>>

\* the Share button: the link copied, with the calculator's inputs then
ChemUIShareLink ==
    /\ chemUI.exists /\ chemLocation.exists
    /\ chemLocation' =
          [chemLocation EXCEPT !.shared =
              [ exists |-> TRUE,
                search |-> ChemistryCalculatorUI_shareLink(chem, chemLocation.search),
                inputs |-> InputsOf(chem) ]]
    /\ UNCHANGED <<now, chem, chemArgs, chemUI, storage, phys, physArgs, physUI, held, app,
                   lab, scenarioManager,
                   fieldLab, animation, debounced>>

ShareNext ==
    \/ \E search \in ShareSearches, t \in Clock : ChemPageOpen(search, t)
    \/ \E field \in DOMAIN ShareTexts : \E text \in ShareTexts[field], t \in Clock :
          ChemUIInput(field, text, t)
    \/ ChemUIShareLink

ShareSpec == Init /\ [][ShareNext]_vars

-----------------------------------------------------------------------------
(* The field mapping lab of the virtual-lab page *)

\* the variables of the two calculators and of AppState
engineVars == <<chem, chemArgs, chemUI, phys, physArgs, physUI, storage, held, app>>

\* data points kept in one behaviour
MaxData == 1

\* the canvas as the page lays it out
FieldCanvas == [width |-> 600, height |-> 300]

\* where the canvas is clicked: its centre, inside the solenoid; 60 pixels
\* below the centre, outside, where 0.1 of the centre field is left; and
\* near a corner, where nothing is left
ProbeClicks == {<<300, 150>>, <<300, 210>>, <<480, 270>>}

FieldLabNew ==
    /\ ~fieldLab.exists
    /\ fieldLab' = FieldMappingLab_new(FieldCanvas)
    /\ UNCHANGED <<now, engineVars, lab, scenarioManager, chemLocation, animation, debounced>>

\* a slider of the field lab is moved
FieldLabInput(slider, text) ==
    /\ fieldLab.exists
    /\ fieldLab' = FieldMappingLab_input(fieldLab, slider, text)
    /\ UNCHANGED <<now, engineVars, lab, scenarioManager, chemLocation, animation, debounced>>

\* the canvas is clicked
FieldLabClick(x, y) ==
    /\ fieldLab.exists
    /\ fieldLab' = FieldMappingLab_click(fieldLab, x, y)
    /\ UNCHANGED <<now, engineVars, lab, scenarioManager, chemLocation, animation, debounced>>

\* the Record button
FieldLabRecord(t) ==
    /\ fieldLab.exists
    /\ Len(fieldLab.fieldData) < MaxData
    /\ ReadClock(t)
    /\ fieldLab' = FieldMappingLab_recordDataPoint(fieldLab, t)
    /\ UNCHANGED <<engineVars, lab, scenarioManager, chemLocation, animation, debounced>>

\* the Clear button
FieldLabClear ==
    /\ fieldLab.exists
    /\ fieldLab' = FieldMappingLab_clearData(fieldLab)
    /\ UNCHANGED <<now, engineVars, lab, scenarioManager, chemLocation, animation, debounced>>

FieldNext ==
    \/ FieldLabNew
    \/ \E text \in {<<"1">>, <<"2">>} : FieldLabInput("current", text)
    \/ \E text \in {<<"1", "0", "0">>, <<"2", "0", "0">>} : FieldLabInput("turns", text)
    \/ \E click \in ProbeClicks : FieldLabClick(click[1], click[2])
    \/ \E t \in Clock : FieldLabRecord(t)
    \/ FieldLabClear

FieldSpec == Init /\ [][FieldNext]_vars

-----------------------------------------------------------------------------
(* The half-reaction animation of the chemistry page, started and stopped  *)
(* by the IntersectionObserver as its section scrolls in and out of view   *)

\* animation-frame callbacks held at once
MaxPending == 2

ANIMATION_WIDTH == 160

AnimNew ==
    /\ ~animation.exists
    /\ animation' = HalfReactionAnimation_new(ANIMATION_WIDTH)
    /\ UNCHANGED <<now, engineVars, lab, scenarioManager, chemLocation, fieldLab, debounced>>

\* the observer sees the canvas intersecting: start(8)
AnimStart(x, vx) ==
    /\ animation.exists
    /\ animation.pending < MaxPending
    /\ animation' = HalfReactionAnimation_start(animation, ELECTRON_COUNT, x, vx)
    /\ UNCHANGED <<now, engineVars, lab, scenarioManager, chemLocation, fieldLab, debounced>>

\* the observer sees the canvas no longer intersecting: stop()
AnimStop ==
    /\ animation.exists
    /\ animation' = HalfReactionAnimation_stop(animation)
    /\ UNCHANGED <<now, engineVars, lab, scenarioManager, chemLocation, fieldLab, debounced>>

\* an animation frame: one of the callbacks requested runs
AnimFrame ==
    /\ animation.exists
    /\ animation.pending > 0
    /\ animation' = HalfReactionAnimation_frame(animation)
    /\ UNCHANGED <<now, engineVars, lab, scenarioManager, chemLocation, fieldLab, debounced>>

AnimNext ==
    \/ AnimNew
    \/ \E x \in {50, 75}, vx \in {1, 2} : AnimStart(x, vx)
    \/ AnimStop
    \/ AnimFrame

AnimSpec == Init /\ [][AnimNext]_vars

-----------------------------------------------------------------------------
(* A debounced function, as bound to the input event of a calculator      *)
(* field: events call it, time passes, the browser runs timers when due   *)
(* or later                                                                *)

\* the clock stops at MaxTime
MaxTime == 700

\* calls of the debounced function
MaxCalls == 3

DebounceArgs == {"a", "b"}

DebounceNew(wait) ==
    /\ ~debounced.exists
    /\ debounced' = Utils_debounce(wait)
    /\ UNCHANGED <<now, engineVars, lab, scenarioManager, chemLocation, fieldLab, animation>>

\* an event calls the debounced function
DebounceCall(args) ==
    /\ debounced.exists
    /\ debounced.calls < MaxCalls
    /\ debounced.time + debounced.wait <= MaxTime
    /\ debounced' = executedFunction(debounced, args)
    /\ UNCHANGED <<now, engineVars, lab, scenarioManager, chemLocation, fieldLab, animation>>

\* time passes
DebounceTick ==
    /\ debounced.exists
    /\ debounced.time + TIMER_RESOLUTION <= MaxTime
    /\ debounced' = [debounced EXCEPT !.time = @ + TIMER_RESOLUTION]
    /\ UNCHANGED <<now, engineVars, lab, scenarioManager, chemLocation, fieldLab, animation>>

\* the browser runs a timer that is due
DebounceFire ==
    /\ debounced.exists
    /\ \E timer \in debounced.timers :
          /\ timer.due <= debounced.time
          /\ debounced' = later(debounced, timer)
    /\ UNCHANGED <<now, engineVars, lab, scenarioManager, chemLocation, fieldLab, animation>>

DebounceNext ==
    \/ \E wait \in {DEBOUNCE_WAIT, CALCULATE_WAIT} : DebounceNew(wait)
    \/ \E args \in DebounceArgs : DebounceCall(args)
    \/ DebounceTick
    \/ DebounceFire

DebounceSpec == Init /\ [][DebounceNext]_vars

\* the clock runs and the event loop runs the timers that are due
DebounceFairSpec ==
    DebounceSpec /\ WF_vars(DebounceTick) /\ WF_vars(DebounceFire)

-----------------------------------------------------------------------------
(* Properties of the stoichiometry engine *)


AbsNum(v) == IF SignOf(v) < 0 THEN Neg(v) ELSE v

Two == Int2Num(STOICH_MNO2)

\* C1: for every input with massZn > 0, massMnO2 > 0 and positive molar
\* masses, calculate() reports exactly one of Zn and MnO2 as the limiting
\* reagent, the other one as the excess reagent, and excessMoles >= 0.
C1_OneLimitingOtherExcess ==
    ( /\ Calculated(chem)
      /\ Gt(chem.massZn, Zero) /\ Gt(chem.massMnO2, Zero)
      /\ Gt(chem.molarMassZn, Zero) /\ Gt(chem.molarMassMnO2, Zero) )
    => /\ chem.results.limitingReagent \in {Zn, MnO2}
       /\ chem.results.excessReagent \in {Zn, MnO2}
       /\ chem.results.excessReagent # chem.results.limitingReagent
       /\ Ge(chem.results.excessMoles, Zero)

\* C1 happens: positive masses and molar masses, MnO2 limiting, Zn left over
C1_Witness ==
    /\ Calculated(chem)
    /\ Gt(chem.massZn, Zero) /\ Gt(chem.massMnO2, Zero)
    /\ Gt(chem.molarMassZn, Zero) /\ Gt(chem.molarMassMnO2, Zero)
    /\ chem.results.limitingReagent = MnO2
    /\ chem.results.excessReagent = Zn
    /\ Gt(chem.results.excessMoles, Zero)

\* C2: with molesZn = massZn/molarMassZn and molesMnO2 = massMnO2/molarMassMnO2,
\* if molesMnO2 < 2*molesZn then MnO2 is limiting, molesReacting = molesMnO2/2,
\* the excess reagent is Zn and excessMoles = molesZn - molesMnO2/2; otherwise
\* Zn is limiting, molesReacting = molesZn, the excess reagent is MnO2 and
\* excessMoles = molesMnO2 - 2*molesZn.
C2_FixedRatioOneToTwo ==
    Calculated(chem) =>
        LET r == chem.results
            molesZn == Div(chem.massZn, chem.molarMassZn)
            molesMnO2 == Div(chem.massMnO2, chem.molarMassMnO2)
        IN  /\ r.molesZn = molesZn
            /\ r.molesMnO2 = molesMnO2
            /\ IF Lt(molesMnO2, Mul(Two, molesZn))
               THEN /\ r.limitingReagent = MnO2
                    /\ r.molesReacting = Div(molesMnO2, Two)
                    /\ r.excessReagent = Zn
                    /\ r.excessMoles = Sub(molesZn, Div(molesMnO2, Two))
               ELSE /\ r.limitingReagent = Zn
                    /\ r.molesReacting = molesZn
                    /\ r.excessReagent = MnO2
                    /\ r.excessMoles = Sub(molesMnO2, Mul(Two, molesZn))

\* C2 happens: user-set molar masses, Zn limiting with MnO2 left over
C2_Witness ==
    /\ Calculated(chem)
    /\ chem.molarMassZn # MOLAR_MASS_ZN /\ chem.molarMassMnO2 # MOLAR_MASS_MNO2
    /\ Gt(chem.massZn, Zero)
    /\ chem.results.limitingReagent = Zn
    /\ Gt(chem.results.excessMoles, Zero)

\* C3: whenever molesMnO2 is exactly 2*molesZn (both masses 0 included),
\* calculate() reports Zn limiting, MnO2 in excess and excessMoles = 0; no
\* third, "both exhausted", outcome exists.
C3_TieReportsZn ==
    Calculated(chem) =>
        LET r == chem.results
            molesZn == Div(chem.massZn, chem.molarMassZn)
            molesMnO2 == Div(chem.massMnO2, chem.molarMassMnO2)
        IN  /\ r.limitingReagent \in {Zn, MnO2}
            /\ (IsNumber(molesMnO2) /\ molesMnO2.k # "NaN" /\ molesMnO2 = Mul(Two, molesZn))
               => /\ r.limitingReagent = Zn
                  /\ r.excessReagent = MnO2
                  /\ r.excessMoles = Zero

\* C3 happens: a tie of two positive mole counts
C3_Witness ==
    /\ Calculated(chem)
    /\ Gt(chem.results.molesZn, Zero)
    /\ chem.results.molesMnO2 = Mul(Two, chem.results.molesZn)
    /\ chem.results.limitingReagent = Zn

\* C4: totalElectrons = electronsPerReaction * molesReacting, chargeQ =
\* totalElectrons * 96485, energyJ = cellVoltage * chargeQ, energyWh =
\* energyJ / 3600, and energyWh * 3600 is energyJ within 1e-6 relative
\* (where the numeric inputs make energyJ a finite number).
C4_ChargeAndEnergy ==
    Calculated(chem) =>
        LET r == chem.results
        IN  /\ r.totalElectrons = Mul(chem.electronsPerReaction, r.molesReacting)
            /\ r.chargeQ = Mul(r.totalElectrons, Int2Num(96485))
            /\ r.energyJ = Mul(chem.cellVoltage, r.chargeQ)
            /\ r.energyWh = Div(r.energyJ, Int2Num(3600))
            /\ IsFinite(r.energyJ) =>
                  Ge(Mul(Rat(1, 1000000), AbsNum(r.energyJ)),
                     AbsNum(Sub(Mul(r.energyWh, Int2Num(3600)), r.energyJ)))

\* C4 happens: a reaction that moves charge, electrons and voltage user-set
C4_Witness ==
    /\ Calculated(chem)
    /\ chem.electronsPerReaction # Int2Num(DEFAULT_ELECTRONS)
    /\ chem.cellVoltage # DEFAULT_VOLTAGE
    /\ Gt(chem.results.chargeQ, Zero)
    /\ Gt(chem.results.energyWh, Zero)

\* the result fields that are not the optional outputs, nor the resistance
\* echoed in inputs
OtherFields(r) ==
    [ r EXCEPT !.current = Null, !.runtimeHours = Null, !.runtimeMinutes = Null,
               !.inputs.resistance = Null ]

\* C5: current, runtimeHours and runtimeMinutes are present exactly when the
\* resistance is > 0, and are then cellVoltage/resistance,
\* energyWh/(cellVoltage*current) and runtimeHours*60; with the resistance
\* absent, zero or negative all three are null; every other result field is
\* what it is with a resistance.
C5_OptionalOutputs ==
    Calculated(chem) =>
        LET r == chem.results
            withResistance ==
                ChemistryCalculator_calculate(
                    [chem EXCEPT !.resistance = Int2Num(10)], r.timestamp).results
        IN  /\ IF IsNumber(chem.resistance) /\ Gt(chem.resistance, Zero)
               THEN /\ r.current = Div(chem.cellVoltage, chem.resistance)
                    /\ r.runtimeHours = Div(r.energyWh, Mul(chem.cellVoltage, r.current))
                    /\ r.runtimeMinutes = Mul(r.runtimeHours, Int2Num(60))
                    /\ IsNumber(r.current) /\ IsNumber(r.runtimeHours)
                    /\ IsNumber(r.runtimeMinutes)
               ELSE r.current = Null /\ r.runtimeHours = Null /\ r.runtimeMinutes = Null
            /\ OtherFields(r) = OtherFields(withResistance)

\* C5 happens: a resistance > 0 gives a current and a runtime
C5_Witness ==
    /\ Calculated(chem)
    /\ Gt(chem.resistance, Zero)
    /\ Gt(chem.results.current, Zero)
    /\ Gt(chem.results.runtimeMinutes, Zero)

\* C5 also happens on the other side: a negative resistance gives none
C5_NegativeResistanceReached ==
    /\ Calculated(chem)
    /\ Lt(chem.resistance, Zero)
    /\ chem.results.current = Null

\* the molar mass the calculator was last given for field f: the option, or
\* the number parsed from the URL parameter or the input element
GivenMolarMass(f) ==
    IF chemArgs.via = "constructor" THEN chemArgs.arg[f] ELSE parseFloat(chemArgs.arg[f])

DefaultMolarMass(f) == IF f = "molarMassZn" THEN MOLAR_MASS_ZN ELSE MOLAR_MASS_MNO2

MassOf(f) == IF f = "molarMassZn" THEN chem.massZn ELSE chem.massMnO2

MolesOf(f) == IF f = "molarMassZn" THEN chem.results.molesZn ELSE chem.results.molesMnO2

\* C9 as the spec has it: a molar mass given as zero is divided by as given
\* and the mole count is not finite.
C9_ZeroMolarMassPropagates ==
    \A f \in {"molarMassZn", "molarMassMnO2"} :
        (Calculated(chem) /\ IsZero(GivenMolarMass(f)))
        => (chem[f] = Zero /\ ~IsFinite(MolesOf(f)))

\* C9 amended: a molar mass given as zero never reaches the division: the
\* constructor, fromURLParams and the UI's input reading replace it by the
\* default (65.38, 86.936), and the mole count is mass / default; a negative
\* molar mass is used as given and a positive mass then has a negative mole
\* count.  Nothing is rejected.
C9_ZeroMolarMassDefaulted ==
    \A f \in {"molarMassZn", "molarMassMnO2"} :
        chem.exists =>
            /\ IsZero(GivenMolarMass(f)) => chem[f] = DefaultMolarMass(f)
            /\ Lt(GivenMolarMass(f), Zero) => chem[f] = GivenMolarMass(f)
            /\ ~IsZero(chem[f])
            /\ Calculated(chem) =>
                  /\ MolesOf(f) = Div(MassOf(f), chem[f])
                  /\ IsZero(GivenMolarMass(f)) =>
                        MolesOf(f) = Div(MassOf(f), DefaultMolarMass(f))
                  /\ (Lt(GivenMolarMass(f), Zero) /\ Gt(MassOf(f), Zero)) =>
                        Lt(MolesOf(f), Zero)

\* C9 happens: zero given for Zn, a negative molar mass for MnO2, calculated
C9_Witness ==
    /\ Calculated(chem)
    /\ chemArgs.via = "constructor"
    /\ IsZero(GivenMolarMass("molarMassZn"))
    /\ Gt(chem.massZn, Zero)
    /\ IsFinite(chem.results.molesZn) /\ Gt(chem.results.molesZn, Zero)
    /\ Lt(GivenMolarMass("molarMassMnO2"), Zero)
    /\ Lt(chem.results.molesMnO2, Zero)

\* the same through the UI's input reading
C9_WitnessUI ==
    /\ Calculated(chem)
    /\ chemArgs.via = "ui"
    /\ IsZero(GivenMolarMass("molarMassMnO2"))
    /\ Gt(chem.results.molesMnO2, Zero)
    /\ Lt(GivenMolarMass("molarMassZn"), Zero)
    /\ Lt(chem.results.molesZn, Zero)

\* the relative permeability the spec gives each listed material
ListedMaterials == {"air", "ferrite", "steel"}

ListedMu_r(material) ==
    CASE material = "air" -> Int2Num(1)
      [] material = "ferrite" -> Int2Num(2000)
      [] material = "steel" -> Int2Num(4000)

\* mu0 = 4 pi * 10^-7
FourPiE7 == Num(4, 10000000, 1)

StraightWireB(I, r) == Div(Mul(FourPiE7, I), Mul(Mul(Int2Num(2), Num(1, 1, 1)), r))

SingleLoopB(mu_r, N, I, r) ==
    Div(Mul(Mul(Mul(FourPiE7, mu_r), N), I), Mul(Int2Num(2), r))

SolenoidB(mu_r, N, I, L) == Div(Mul(Mul(Mul(FourPiE7, mu_r), N), I), L)

FieldWithMaterial(m) ==
    MagneticFieldCalculator_calculate([phys EXCEPT !.material = m], now).results.B

C7_WitnessSolenoid ==
    /\ Calculated(phys)
    /\ phys.conductorType = "solenoid"
    /\ phys.material = "ferrite"
    /\ IsFinite(phys.results.B) /\ ~IsZero(phys.results.B)
    /\ phys.results.B # FieldWithMaterial("air")

\* C8: a conductorType that is none of the three is not rejected:
\* calculate() gives the solenoid's field, formula, description and work
\* steps, and the results keep the type as given.
C8_UnknownTypeIsSolenoid ==
    (phys.exists /\ phys.conductorType \notin CONDUCTOR_TYPES) =>
        /\ physArgs.via = "constructor" => phys.conductorType = physArgs.arg.conductorType
        /\ physArgs.via = "fromURLParams" => phys.conductorType = physArgs.arg.type
        /\ Calculated(phys) =>
             /\ IsNumber(phys.results.B)
             /\ phys.material \in ListedMaterials =>
                   phys.results.B = SolenoidB(ListedMu_r(phys.material), phys.turns,
                                              phys.current, phys.length)
             /\ phys.results.formula = "B = mu0 * mu_r * N * I / L"
             /\ phys.results.description =
                   "Magnetic field inside a solenoid (center approximation)"
             /\ phys.results.conductorType = phys.conductorType
             /\ phys.workSteps = << "Apply solenoid formula", "Solenoid field properties",
                                    "Turns density (n)" >>

\* C8 happens: the type "toroid", calculated, with a finite field
C8_Witness ==
    /\ Calculated(phys)
    /\ phys.conductorType = "toroid"
    /\ IsFinite(phys.results.B) /\ ~IsZero(phys.results.B)

Geometry == {"radius", "length", "distance"}

\* the radius, length or distance (in metres) the calculator was last given:
\* the option, the number parsed from the URL parameter, or the number
\* parsed from the input element, which is in centimetres
GivenGeometry(f) ==
    CASE physArgs.via = "constructor" -> physArgs.arg[f]
      [] physArgs.via = "fromURLParams" -> parseFloat(physArgs.arg[f])
      [] physArgs.via = "ui" -> Div(parseFloat(physArgs.arg[f]), Int2Num(100))

DefaultGeometry(f) == IF f = "length" THEN Rat(5, 100) ELSE Rat(1, 100)

\* the one field the branch of the conductor type divides by
DividedBy ==
    CASE phys.conductorType = "straight-wire" -> "distance"
      [] phys.conductorType = "single-loop" -> "radius"
      [] OTHER -> "length"

GivenByInput == physArgs.via \in {"constructor", "fromURLParams", "ui"}

\* C10 as the spec has it: a radius, length or distance given as zero is
\* divided by as given and the field is Infinity.
C10_ZeroGeometryPropagates ==
    (Calculated(phys) /\ GivenByInput /\ IsZero(GivenGeometry(DividedBy))) =>
        (phys[DividedBy] = Zero /\ phys.results.B.k = "Infinity")

\* C10 amended: calculate() divides by the geometry without a guard, but a
\* radius, length or distance given as zero to the constructor, to
\* fromURLParams or in the UI never reaches the division: it is replaced by
\* the default (0.01, 0.05, 0.01 m) and the field is the formula's value at
\* the default.  A negative value is used as given and changes the sign of
\* the field.  Only calculateAtDistances sets the distance as given: a zero
\* distance there gives a straight-wire field of Infinity.
C10_ZeroGeometryDefaulted ==
    phys.exists =>
        /\ ~IsZero(phys.radius) /\ ~IsZero(phys.length)
        /\ IsZero(phys.distance) => physArgs.via = "calculateAtDistances"
        /\ GivenByInput =>
             /\ \A f \in Geometry :
                   /\ IsZero(GivenGeometry(f)) => phys[f] = DefaultGeometry(f)
                   /\ Lt(GivenGeometry(f), Zero) => phys[f] = GivenGeometry(f)
             /\ Calculated(phys) =>
                   /\ phys.results.B.k = "num"
                   /\ (Lt(GivenGeometry(DividedBy), Zero) /\ Gt(phys.current, Zero)
                         /\ Gt(phys.turns, Zero)) => Lt(phys.results.B, Zero)
        /\ physArgs.via = "calculateAtDistances" =>
             /\ phys.distance = physArgs.arg[Len(physArgs.arg)]
             /\ Calculated(phys)
             /\ (phys.conductorType = "straight-wire" /\ IsZero(phys.distance)) =>
                   phys.results.B.k = "Infinity"
             /\ (phys.conductorType # "straight-wire" \/ ~IsZero(phys.distance)) =>
                   phys.results.B.k = "num"

\* C10 happens: a solenoid given a length of zero, calculated, with a
\* finite field
C10_Witness ==
    /\ Calculated(phys)
    /\ GivenByInput
    /\ DividedBy = "length"
    /\ IsZero(GivenGeometry("length"))
    /\ phys.length = Rat(5, 100)
    /\ IsFinite(phys.results.B) /\ ~IsZero(phys.results.B)

\* a single loop given a negative radius, calculated, with a negative field
C10_WitnessNegative ==
    /\ Calculated(phys)
    /\ GivenByInput
    /\ DividedBy = "radius"
    /\ Lt(GivenGeometry("radius"), Zero)
    /\ Lt(phys.results.B, Zero)

\* a straight wire whose last distance of calculateAtDistances is zero
C10_WitnessInfinity ==
    /\ Calculated(phys)
    /\ physArgs.via = "calculateAtDistances"
    /\ phys.conductorType = "straight-wire"
    /\ IsZero(phys.distance)
    /\ phys.results.B.k = "Infinity"

ChemFields ==
    {"molarMassZn", "molarMassMnO2", "electronsPerReaction", "cellVoltage",
     "massZn", "massMnO2", "resistance"}

\* the name of the URL parameter and of the input element of a field
ChemInputName(f) ==
    CASE f = "electronsPerReaction" -> "electrons"
      [] f = "cellVoltage" -> "voltage"
      [] OTHER -> f

\* the value the calculator was last given for field f: the option, or what
\* parseFloat (parseInt for the electrons) makes of the URL parameter or of
\* the input element
GivenValue(f) ==
    IF chemArgs.via = "constructor" THEN chemArgs.arg[f]
    ELSE IF f = "electronsPerReaction" THEN parseInt(chemArgs.arg[ChemInputName(f)])
    ELSE parseFloat(chemArgs.arg[ChemInputName(f)])

\* the documented defaults; a mass defaults to 0 and a resistance to none
DocumentedDefault(f) ==
    CASE f = "molarMassZn" -> Rat(6538, 100)
      [] f = "molarMassMnO2" -> Rat(86936, 1000)
      [] f = "electronsPerReaction" -> Int2Num(2)
      [] f = "cellVoltage" -> Rat(15, 10)
      [] f \in {"massZn", "massMnO2"} -> Zero
      [] f = "resistance" -> Null

\* the numbers calculate() calls toFixed on: a call on anything that is not
\* a number throws
ToFixedReceivers(r) ==
    {r.molesZn, r.molesMnO2, r.excessMoles, r.molesReacting, r.totalElectrons,
     r.chargeQ, r.energyJ, r.energyWh}
    \cup (IF r.current = Null THEN {}
          ELSE {r.current, r.runtimeHours, r.runtimeMinutes})

\* C11 as the spec has it: a missing or non-numeric value is replaced by
\* its default (a missing resistance is none), in the constructor, in
\* fromURLParams and in the UI's input reading.
C11_NonNumericReplaced ==
    chem.exists =>
        \A f \in ChemFields :
            GivenValue(f).k \in {"undefined", "null", "NaN", "string"}
            => chem[f] = DocumentedDefault(f)

\* C11 amended: fromURLParams and the UI's input reading parse every value
\* and replace a missing or non-numeric one by its default (65.38, 86.936,
\* 2, 1.5; 0 for a mass, none for the resistance); the constructor replaces
\* a value that is undefined, null or NaN by the same default, but keeps a
\* non-empty non-numeric string as given, and the quantities computed from
\* it are NaN.  calculate() returns a result in either case: every value
\* it formats is a number.
C11_FalsyReplaced ==
    chem.exists =>
        /\ \A f \in ChemFields :
              /\ GivenValue(f).k \in {"undefined", "null", "NaN"}
                 => chem[f] = DocumentedDefault(f)
              /\ GivenValue(f).k = "string"
                 => chemArgs.via = "constructor" /\ chem[f] = GivenValue(f)
              /\ chemArgs.via \in {"fromURLParams", "ui"}
                 => (chem[f] = Null \/ chem[f].k \in {"num", "Infinity"})
        /\ Calculated(chem) =>
              /\ \A v \in ToFixedReceivers(chem.results) : IsNumber(v)
              /\ chem.molarMassZn.k = "string" => chem.results.molesZn = NaN
              /\ chem.massMnO2.k = "string" => chem.results.molesMnO2 = NaN

\* C11 happens: the constructor is given a non-numeric molar mass and no
\* voltage, and calculate() returns
C11_Witness ==
    /\ Calculated(chem)
    /\ chemArgs.via = "constructor"
    /\ GivenValue("molarMassZn").k = "string"
    /\ GivenValue("cellVoltage").k = "undefined"
    /\ chem.cellVoltage = Rat(15, 10)
    /\ chem.results.molesZn = NaN

\* the UI reads a non-numeric molar mass, an empty voltage and an empty
\* resistance
C11_WitnessUI ==
    /\ Calculated(chem)
    /\ chemArgs.via = "ui"
    /\ GivenValue("molarMassZn").k = "NaN"
    /\ GivenValue("cellVoltage").k = "NaN"
    /\ GivenValue("resistance").k = "NaN"
    /\ chem.molarMassZn = Rat(6538, 100)
    /\ IsFinite(chem.results.molesZn) /\ Gt(chem.results.chargeQ, Zero)

\* fromURLParams is given no massZn and no resistance
C11_WitnessURL ==
    /\ Calculated(chem)
    /\ chemArgs.via = "fromURLParams"
    /\ chemArgs.arg.massZn = NoText
    /\ chem.massZn = Zero
    /\ chem.resistance = Null

\* a result record with its timestamp blanked
WithoutTimestamp(r) == [r EXCEPT !.timestamp = 0]

\* C12: a calculate() on the input record of an earlier calculate() (of
\* the same calculator or of another one built since) gives a result equal
\* to the earlier one in every field but the timestamp, and equal work
\* steps.
C12_SameInputsSameResult ==
    held.exists =>
        /\ ( /\ held.owner = "chem" /\ Calculated(chem)
             /\ chem.results.inputs = held.returned.results.inputs )
           => /\ WithoutTimestamp(chem.results) = WithoutTimestamp(held.returned.results)
              /\ chem.workSteps = held.returned.workSteps
        /\ ( /\ held.owner = "phys" /\ Calculated(phys)
             /\ phys.results.inputs = held.returned.results.inputs
             /\ phys.results.conductorType = held.returned.results.conductorType )
           => /\ WithoutTimestamp(phys.results) = WithoutTimestamp(held.returned.results)
              /\ phys.workSteps = held.returned.workSteps

\* C12 happens: the same chemistry calculator has calculated again, later,
\* on the inputs of the kept result
C12_Witness ==
    /\ held.exists /\ held.owner = "chem" /\ ~held.alias /\ ~held.gone
    /\ Calculated(chem)
    /\ chem.results.inputs = held.returned.results.inputs
    /\ chem.results.timestamp # held.returned.results.timestamp
    /\ Gt(chem.results.chargeQ, Zero)

\* another field calculator, built since, has calculated on the same inputs
C12_WitnessOtherCalculator ==
    /\ held.exists /\ held.owner = "phys" /\ held.gone
    /\ Calculated(phys)
    /\ phys.results.inputs = held.returned.results.inputs
    /\ phys.results.conductorType = held.returned.results.conductorType
    /\ phys.results.timestamp # held.returned.results.timestamp

\* C13: the result record and the step list calculate() handed out hold
\* what they held then, whatever the calculators have done since.
C13_ReturnedIsSnapshot ==
    held.exists => held.object = held.returned

\* C13 happens: the calculator of the kept result has another input and
\* has calculated again, and the other engine has calculated since
C13_Witness ==
    /\ held.exists /\ held.owner = "chem" /\ ~held.alias /\ ~held.gone
    /\ Calculated(chem) /\ Calculated(phys)
    /\ chem.results.inputs # held.returned.results.inputs
    /\ chem.results.current # held.returned.results.current
    /\ phys.results.timestamp > held.returned.results.timestamp

\* C20: after calculate() the chemistry steps are moles, limiting reagent,
\* electrons, charge, energy, and a sixth current/runtime step exactly when
\* the resistance is > 0; the field steps are two for straight-wire and
\* single-loop and three, the third being the turns density, for the
\* solenoid; the steps of earlier calls are gone.
C20_StepsOfLatestCalculation ==
    /\ Calculated(chem) =>
          chem.workSteps =
              << "Convert mass to moles", "Identify limiting reagent",
                 "Calculate electrons transferred", "Calculate total charge",
                 "Calculate theoretical energy" >>
              \o (IF Gt(chem.results.inputs.resistance, Zero)
                  THEN << "Estimate current and runtime (approximation)" >>
                  ELSE << >>)
    /\ Calculated(phys) =>
          /\ phys.results.conductorType = "straight-wire" =>
                phys.workSteps = << "Apply Biot-Savart law for straight wire",
                                    "Direction (Right-Hand Rule)" >>
          /\ phys.results.conductorType = "single-loop" =>
                phys.workSteps = << "Calculate field at center of circular coil",
                                    "Direction (Right-Hand Rule for Loops)" >>
          /\ phys.results.conductorType = "solenoid" =>
                phys.workSteps = << "Apply solenoid formula", "Solenoid field properties",
                                    "Turns density (n)" >>

\* C20 happens: the same chemistry calculator has calculated twice, the
\* first time with a load and now with none
C20_Witness ==
    /\ held.exists /\ held.owner = "chem" /\ ~held.alias /\ ~held.gone
    /\ Calculated(chem)
    /\ Len(held.returned.workSteps) = 6
    /\ Len(chem.workSteps) = 5

\* the same solenoid calculator has calculated twice
C20_WitnessSolenoid ==
    /\ held.exists /\ held.owner = "phys" /\ ~held.alias /\ ~held.gone
    /\ Calculated(phys)
    /\ phys.results.conductorType = "solenoid"
    /\ Len(phys.workSteps) = 3

\* the finite number v >= 0 as toFixed(places) shows it, without the
\* decimal point: v * 10^places rounded to the nearest integer
Fixed(v, places) ==
    LET m == Mul(v, Int2Num(Pow10(places)))
    IN  (2 * m.n + m.d) \div (2 * m.d)

\* the calculator holds the masses of a preset and the default molar
\* masses, voltage and electrons
PresetWithDefaults(presetKey) ==
    /\ Calculated(chem)
    /\ chem.massZn = CHEMISTRY_PRESETS[presetKey].massZn
    /\ chem.massMnO2 = CHEMISTRY_PRESETS[presetKey].massMnO2
    /\ chem.molarMassZn = Rat(6538, 100)
    /\ chem.molarMassMnO2 = Rat(86936, 1000)
    /\ chem.cellVoltage = Rat(15, 10)
    /\ chem.electronsPerReaction = Int2Num(2)

\* C14: preset A (1.0 g Zn, 2.0 g MnO2, defaults) gives molesZn 0.015295,
\* molesMnO2 0.023006, limiting reagent MnO2, charge 2220.6 C and energy
\* 0.9253 Wh.
C14_PresetA ==
    PresetWithDefaults("A") =>
        /\ Fixed(chem.results.molesZn, 6) = 15295
        /\ Fixed(chem.results.molesMnO2, 6) = 23006
        /\ chem.results.limitingReagent = MnO2
        /\ Fixed(chem.results.chargeQ, 1) = 22206
        /\ Fixed(chem.results.energyWh, 4) = 9253

\* what calculate() gives for preset A: molesZn 0.015295, molesMnO2
\* 0.023005, limiting reagent MnO2, charge 2219.7 C and energy 0.9249 Wh
C14_PresetAComputed ==
    PresetWithDefaults("A") =>
        /\ Fixed(chem.results.molesZn, 6) = 15295
        /\ Fixed(chem.results.molesMnO2, 6) = 23005
        /\ chem.results.limitingReagent = MnO2
        /\ Fixed(chem.results.chargeQ, 1) = 22197
        /\ Fixed(chem.results.energyWh, 4) = 9249

C14_Reached == PresetWithDefaults("A")

\* C15: preset B (10.0 g Zn, 100.0 g MnO2, defaults) gives limiting
\* reagent Zn, charge 29522 C and energy 12.30 Wh.
C15_PresetB ==
    PresetWithDefaults("B") =>
        /\ chem.results.limitingReagent = Zn
        /\ Fixed(chem.results.chargeQ, 0) = 29522
        /\ Fixed(chem.results.energyWh, 2) = 1230

\* what calculate() gives for preset B: limiting reagent Zn, charge
\* 29515 C and energy 12.30 Wh
C15_PresetBComputed ==
    PresetWithDefaults("B") =>
        /\ chem.results.limitingReagent = Zn
        /\ Fixed(chem.results.chargeQ, 0) = 29515
        /\ Fixed(chem.results.energyWh, 2) = 1230

C15_Reached == PresetWithDefaults("B")

\* Math.PI lies between these two
PI_LO == Rat(31415, 10000)
PI_HI == Rat(31416, 10000)

\* the finite number v = q * PI^p, p in {0, 1}, with PI taken as piValue
WithPi(v, piValue) ==
    IF v.p = 1 THEN Mul([v EXCEPT !.p = 0], piValue) ELSE v

\* toFixed(places) of v >= 0 shows the digits of k, whatever PI is between
\* its two bounds
FixedIs(v, places, k) ==
    /\ Fixed(WithPi(v, PI_LO), places) = k
    /\ Fixed(WithPi(v, PI_HI), places) = k

\* the solenoid of the scenario: 200 turns, 2 A, 0.05 m, air
SolenoidScenario ==
    /\ Calculated(phys)
    /\ phys.conductorType = "solenoid"
    /\ phys.turns = Int2Num(200)
    /\ phys.current = Int2Num(2)
    /\ phys.length = Rat(5, 100)
    /\ phys.material = "air"

\* C16: the solenoid with 200 turns, 2 A, 0.05 m in air has B = 0.01005 T
\* and B_mT = 10.05, to the digits shown.
C16_SolenoidScenario ==
    SolenoidScenario =>
        /\ phys.results.B = Num(2, 625, 1)
        /\ FixedIs(phys.results.B, 5, 1005)
        /\ FixedIs(phys.results.B_mT, 2, 1005)

C16_Witness ==
    /\ SolenoidScenario
    /\ IsFinite(phys.results.B)
    /\ phys.results.B.p = 1

\* the straight wire of the scenario: 2 A at 0.01 m
StraightWireScenario ==
    /\ Calculated(phys)
    /\ phys.conductorType = "straight-wire"
    /\ phys.current = Int2Num(2)
    /\ phys.distance = Rat(1, 100)

\* C17: the straight wire with 2 A at 0.01 m has B = 40 microtesla,
\* B_uT = 40.0.
C17_StraightWireScenario ==
    StraightWireScenario =>
        /\ phys.results.B_uT = Int2Num(40)
        /\ phys.results.B = Rat(4, 100000)

C17_Witness ==
    /\ StraightWireScenario
    /\ phys.material = "steel"
    /\ IsFinite(phys.results.B_uT)

\* the chemistry page's last calculation had a load resistance > 0
CalculatedWithLoad ==
    /\ chemUI.exists /\ Calculated(chem)
    /\ Gt(chem.results.inputs.resistance, Zero)

\* the physics page's last calculation was an import
Imported == phys.exists /\ physArgs.exists /\ physArgs.via = "importFromChemistry"

\* C18: a chemistry calculation with a load resistance > 0 persists the
\* current it computed under chemistry_results, and importFromChemistry()
\* makes the stored current the physics calculator's current and
\* recomputes B from it.
C18_Pipeline ==
    /\ CalculatedWithLoad =>
          /\ storage.chemistry_results.exists
          /\ storage.chemistry_results.current = chem.results.current
    /\ Imported =>
          /\ phys.current = physArgs.arg.current
          /\ phys.results.inputs.current = phys.current
          /\ phys.results.timestamp = now

\* what the code does: the current is persisted when the calculation's
\* charge is not zero, and an import takes whatever current is stored
C18_PipelineWithCharge ==
    /\ (CalculatedWithLoad /\ Truthy(chem.results.chargeQ)) =>
          /\ storage.chemistry_results.exists
          /\ storage.chemistry_results.current = chem.results.current
          /\ storage.chemistry_results.timestamp = chem.results.timestamp
    /\ Imported =>
          /\ phys.current = physArgs.arg.current
          /\ phys.results.inputs.current = phys.current
          /\ phys.results.B = SolenoidB(Int2Num(1), phys.turns, phys.current, phys.length)

\* C18 happens: 1.5 V over 10 ohm gives 0.15 A in both calculators
C18_Witness ==
    /\ CalculatedWithLoad /\ Imported
    /\ chem.results.current = Rat(15, 100)
    /\ phys.current = Rat(15, 100)
    /\ IsFinite(phys.results.B) /\ ~IsZero(phys.results.B)

\* a calculation with a load and no Zn: a current, and nothing stored
C18_NotPersistedReached ==
    /\ CalculatedWithLoad
    /\ chem.results.current = Rat(15, 100)
    /\ ~storage.chemistry_results.exists

-----------------------------------------------------------------------------
(* Properties of the application shell *)

NotMode(pair) == pair[1] # "mode"

\* what an item of localStorage gives init(): the string a JSON string
\* literal stands for, unless that is empty; else the default
StoredOr(item, default) ==
    IF item.exists /\ item.quoted /\ item.text # "" THEN item.text ELSE default

\* C19: right after AppState.init(), a URL parameter mode (theme) whose first
\* value is one of chemistry, physics (dark, light, high-contrast) is the
\* active mode (theme) whatever localStorage held; any other URL value leaves
\* the stored value, or the default, active; localStorage holds the active
\* mode and theme; the URL has the active mode as its mode parameter and
\* every other parameter it had, in order.
C19_DeepLink ==
    (app.exists /\ app.via = "init") =>
        LET search == app.given.search
            urlMode == URLSearchParams_get(search, "mode")
            urlTheme == URLSearchParams_get(search, "theme")
        IN  /\ IF URLSearchParams_has(search, "mode") /\ urlMode \in {"chemistry", "physics"}
               THEN app.mode = urlMode
               ELSE app.mode = StoredOr(app.given.store.mode, "chemistry")
            /\ IF /\ URLSearchParams_has(search, "theme")
                  /\ urlTheme \in {"dark", "light", "high-contrast"}
               THEN app.theme = urlTheme
               ELSE app.theme = StoredOr(app.given.store.theme, "dark")
            /\ storage.mode = JSON_stringify(app.mode)
            /\ storage.theme = JSON_stringify(app.theme)
            /\ Len(SelectSeq(app.search, NotMode)) = Len(app.search) - 1
            /\ URLSearchParams_get(app.search, "mode") = app.mode
            /\ SelectSeq(app.search, NotMode) = SelectSeq(search, NotMode)

\* init() under ?theme=light&mode=physics with chemistry stored: physics and
\* light are active and stored, and theme=light is still in the URL
C19_Witness ==
    /\ app.exists /\ app.via = "init"
    /\ app.given.search = << <<"theme", "light">>, <<"mode", "physics">> >>
    /\ app.given.store.mode = JSON_stringify("chemistry")
    /\ app.given.store.theme = JSON_stringify("sepia")
    /\ app.mode = "physics" /\ app.theme = "light"
    /\ storage.mode = JSON_stringify("physics")
    /\ app.search = << <<"theme", "light">>, <<"mode", "physics">> >>

\* init() under ?mode=quantum&current=2&mode=physics with physics stored:
\* the URL value is ignored and the URL is rewritten to the active mode
C19_WitnessIgnored ==
    /\ app.exists /\ app.via = "init"
    /\ app.given.search = << <<"mode", "quantum">>, <<"current", "2">>, <<"mode", "physics">> >>
    /\ app.given.store.mode = NoItem
    /\ app.mode = "chemistry"
    /\ app.search = << <<"mode", "chemistry">>, <<"current", "2">> >>

-----------------------------------------------------------------------------
(* Properties of the virtual labs *)

\* C21: once the lab has saved a scenario, the persisted saved_scenarios
\* list has at most 10 entries, and they are the last entries of what
\* localStorage held when the lab was built followed by the scenarios the
\* lab saved, in that order.
C21_LastTenInOrder ==
    (lab.exists /\ Len(lab.saved) > 0) =>
        LET stored == LoadScenarios(storage)
            all == lab.found \o lab.saved
            n == Len(stored)
        IN  /\ n <= 10
            /\ n = IF Len(all) < 10 THEN Len(all) ELSE 10
            /\ \A i \in 1..n : stored[i] = all[Len(all) - n + i]

\* three saves on top of nine earlier scenarios: the two oldest are gone
C21_Witness ==
    /\ lab.exists /\ Len(lab.found) = 9 /\ Len(lab.saved) = 3
    /\ lab.saved[1].massZn # lab.saved[3].massZn
    /\ Len(LoadScenarios(storage)) = 10
    /\ LoadScenarios(storage)[1] = lab.found[3]
    /\ LoadScenarios(storage)[10] = lab.saved[3]

\* C27: a scenario saved by the lab or by the manager, and not deleted by
\* its id, is in the persisted list as long as no more than 10 were saved.
C27_NothingLost ==
    (lab.exists /\ scenarioManager.exists) =>
        LET stored == LoadScenarios(storage)
            Stored(s) == \E i \in 1..Len(stored) : stored[i] = s
        IN  (Len(lab.found) + Len(lab.saved) + Len(scenarioManager.saved) <= 10) =>
                /\ \A i \in 1..Len(lab.saved) : Stored(lab.saved[i])
                /\ \A i \in 1..Len(scenarioManager.saved) :
                       scenarioManager.saved[i].id \notin scenarioManager.deleted
                           => Stored(scenarioManager.saved[i])

\* the lab saved a scenario after the manager was built, and the manager's
\* next save wrote its own list over it
C27_LabScenarioLost ==
    /\ lab.exists /\ scenarioManager.exists
    /\ Len(lab.saved) = 1 /\ Len(scenarioManager.saved) = 1
    /\ scenarioManager.deleted = {}
    /\ LoadScenarios(storage) = scenarioManager.saved

\* what ChemistryCalculator.calculate() reports for the lab's masses and the
\* default molar masses
EngineForLab ==
    ChemistryCalculator_calculate(
        ChemistryCalculator_new(
            [NoChemOptions EXCEPT !.massZn = lab.massZn, !.massMnO2 = lab.massMnO2]),
        0).results

\* C24: the reagent the lab shows as limiting is the one the stoichiometry
\* engine reports as limiting for the same masses, and it is the one whose
\* leftover the lab shows as 0.
C24_LabAgreesWithEngine ==
    lab.exists =>
        /\ lab.shown.limitingReagent = EngineForLab.limitingReagent
        /\ lab.shown.limitingReagent = Zn => lab.shown.znLeftover = Zero
        /\ lab.shown.limitingReagent = MnO2 => lab.shown.mno2Leftover = Zero

\* 1 g of Zn with 9 g of MnO2: the engine reports Zn as limiting, the lab
\* shows MnO2 and a Zn leftover of 0
C24_LabDisagrees ==
    /\ lab.exists
    /\ lab.massZn = Int2Num(1) /\ lab.massMnO2 = Int2Num(9)
    /\ EngineForLab.limitingReagent = Zn
    /\ lab.shown.limitingReagent = MnO2
    /\ lab.shown.znLeftover = Zero /\ Gt(lab.shown.mno2Leftover, Zero)

-----------------------------------------------------------------------------
(* Properties of the shared link *)

\* C26: loading the link shareLink() made through fromURLParams yields
\* the seven inputs the calculator had when the link was made.
C26_LinkReproducesInputs ==
    (chemLocation.exists /\ chemLocation.shared.exists) =>
        InputsOf(ChemistryCalculator_fromURLParams(chemLocation.shared.search))
            = chemLocation.shared.inputs

\* a page opened with voltage=3 and resistance=10 whose user set the
\* voltage back to 1.5 and cleared the load: the link still says 3 and 10
C26_StaleParameters ==
    /\ chemLocation.exists /\ chemLocation.shared.exists
    /\ chemLocation.search.voltage = <<"3">>
    /\ chemLocation.shared.inputs.cellVoltage = DEFAULT_VOLTAGE
    /\ chemLocation.shared.inputs.resistance = Null
    /\ chemLocation.shared.search.voltage = <<"3">>
    /\ chemLocation.shared.search.resistance = <<"1", "0">>

\* the link of a page opened without these parameters reproduces the inputs
C26_FreshPageReproduced ==
    (/\ chemLocation.exists /\ chemLocation.shared.exists
     /\ chemLocation.search = NoChemParams) =>
        InputsOf(ChemistryCalculator_fromURLParams(chemLocation.shared.search))
            = chemLocation.shared.inputs

-----------------------------------------------------------------------------
(* Properties of the persisted chemistry results *)

\* C25: after every calculate() of the chemistry UI the chemistry_results
\* record holds the charge, energy, current and timestamp of the
\* calculation just performed.
C25_StoredIsLatest ==
    (chemUI.exists /\ Calculated(chem)) =>
        /\ storage.chemistry_results.exists
        /\ storage.chemistry_results.chargeQ = JsonNumber(chem.results.chargeQ)
        /\ storage.chemistry_results.energyWh = JsonNumber(chem.results.energyWh)
        /\ storage.chemistry_results.current = JsonNumber(chem.results.current)
        /\ storage.chemistry_results.timestamp = chem.results.timestamp

\* the Zn mass was emptied and the voltage changed after a calculation with
\* 1 g of Zn: the record of the earlier calculation is still stored, and the
\* physics page imported its current
C25_StaleRecordImported ==
    /\ chemUI.exists /\ Calculated(chem)
    /\ IsZero(chem.results.chargeQ)
    /\ storage.chemistry_results.exists
    /\ ~IsZero(storage.chemistry_results.chargeQ)
    /\ IsFinite(chem.results.current)
    /\ storage.chemistry_results.current # chem.results.current
    /\ Imported
    /\ phys.current = storage.chemistry_results.current

\* C23: after init(), whatever localStorage and the URL held, and after any
\* setTheme, setTextSize, toggleTextSize and setMode, the theme is one of
\* dark, light, high-contrast, the text size one of normal, large and the
\* mode one of chemistry, physics.
C23_ValuesInLists ==
    app.exists =>
        /\ app.theme \in {"dark", "light", "high-contrast"}
        /\ app.textSize \in {"normal", "large"}
        /\ app.mode \in {"chemistry", "physics"}

\* init() with "sepia" stored as the theme and "quantum" as the mode, the
\* URL naming neither: both are active
C23_UnlistedValuesActive ==
    /\ app.exists /\ app.via = "init"
    /\ app.given.store.theme = JSON_stringify("sepia")
    /\ app.given.store.mode = JSON_stringify("quantum")
    /\ app.theme = "sepia" /\ app.mode = "quantum"

\* a setter called with a value outside its list leaves the state and
\* the persisted values as they were
C23_RejectedSetterChangesNothing ==
    [][ (/\ app.exists /\ app'.exists
         /\ \/ app'.via = "setTheme" /\ app'.arg \notin {"dark", "light", "high-contrast"}
            \/ app'.via = "setTextSize" /\ app'.arg \notin {"normal", "large"}
            \/ app'.via = "setMode" /\ app'.arg \notin {"chemistry", "physics"})
        => /\ app'.theme = app.theme /\ app'.textSize = app.textSize
           /\ app'.mode = app.mode /\ app'.search = app.search
           /\ storage' = storage ]_vars

-----------------------------------------------------------------------------
(* Properties of the field engine in its current *)

\* the current the calculator was last given: the option, or the number
\* parsed from the URL parameter or from the input element
GivenCurrent ==
    IF physArgs.via = "constructor" THEN physArgs.arg.current
    ELSE parseFloat(physArgs.arg.current)

\* the field the calculator reports with its current replaced by I
FieldAtCurrent(I) ==
    MagneticFieldCalculator_calculate([phys EXCEPT !.current = I], now).results.B

\* C30: a current given as 0 to the constructor, to fromURLParams or in the
\* UI gives B = 0, and a negative current gives the negated B of the
\* positive current.
C30_ZeroCurrentZeroField ==
    (Calculated(phys) /\ GivenByInput) =>
        /\ IsZero(GivenCurrent) => IsZero(phys.results.B)
        /\ Lt(GivenCurrent, Zero) =>
              phys.results.B = Neg(FieldAtCurrent(Neg(GivenCurrent)))

\* what the code does: B is the calculator's current times the field of 1 A
\* for every conductor type, and a negative current gives the negated B of
\* the positive current; but a current given as 0 to the constructor, to
\* fromURLParams or in the UI is replaced by the default of 1 A, so B is the
\* field of 1 A and not 0.
C30_ZeroCurrentDefaulted ==
    (phys.exists /\ GivenByInput) =>
        /\ IsZero(GivenCurrent) => phys.current = Int2Num(1)
        /\ (IsFinite(GivenCurrent) /\ ~IsZero(GivenCurrent)) => phys.current = GivenCurrent
        /\ Calculated(phys) =>
              /\ phys.results.B = Mul(phys.current, FieldAtCurrent(Int2Num(1)))
              /\ IsZero(GivenCurrent) => phys.results.B = FieldAtCurrent(Int2Num(1))
              /\ Lt(GivenCurrent, Zero) =>
                    phys.results.B = Neg(FieldAtCurrent(Neg(GivenCurrent)))

\* a calculator given a current of 0, calculated, with the field of 1 A
C30_Witness ==
    /\ Calculated(phys) /\ GivenByInput
    /\ physArgs.via = "constructor"
    /\ IsZero(GivenCurrent)
    /\ phys.current = Int2Num(1)
    /\ IsFinite(phys.results.B) /\ ~IsZero(phys.results.B)

\* a negative current typed into the UI, with the negated field of 2 A
C30_WitnessNegative ==
    /\ Calculated(phys) /\ physArgs.via = "ui"
    /\ GivenCurrent = Int2Num(-2)
    /\ ~IsZero(phys.results.B)
    /\ phys.results.B = Neg(FieldAtCurrent(Int2Num(2)))

-----------------------------------------------------------------------------
(* Properties of the field mapping lab *)

\* the centre field of a solenoid of the lab's length
CentreField(turns, current) ==
    Div(Mul(Mul(FourPiE7, turns), current), fieldLab.length)

\* C28: the B of every recorded data point is the probe field of the
\* current and turns stored with it: mu0 * turns * current / length for a
\* probe inside the solenoid, and outside a part of it that the probe's
\* place alone decides.
C28_DataPointsSelfConsistent ==
    fieldLab.exists =>
        \A i \in 1..Len(fieldLab.fieldData) :
            LET d == fieldLab.fieldData[i]
            IN  /\ d.location = "inside solenoid" => d.B = CentreField(d.turns, d.current)
                /\ d.location = "outside solenoid" =>
                      \E part \in {Zero, Rat(1, 10)} :
                          d.B = Mul(CentreField(d.turns, d.current), part)

\* the probe was placed inside the solenoid at 2 A, the current slider then
\* moved to 1 A, and the point recorded has 1 A with the field of 2 A
C28_StaleProbeRecorded ==
    /\ fieldLab.exists /\ Len(fieldLab.fieldData) = 1
    /\ fieldLab.fieldData[1].location = "inside solenoid"
    /\ fieldLab.fieldData[1].current = Int2Num(1)
    /\ fieldLab.fieldData[1].B = CentreField(fieldLab.fieldData[1].turns, Int2Num(2))

\* nothing is recorded before a probe has been placed, and clearData
\* empties the list
C28_RecordNeedsProbe ==
    [][ /\ (fieldLab.exists /\ fieldLab.probeB = Undefined /\ fieldLab'.exists)
            => fieldLab'.fieldData = << >>
        /\ (fieldLab.exists /\ fieldLab'.exists
            /\ Len(fieldLab'.fieldData) < Len(fieldLab.fieldData))
            => fieldLab'.fieldData = << >> ]_vars

-----------------------------------------------------------------------------
(* Properties of the half-reaction animation *)

\* C29: in every interleaving of start(), stop() and animation frames at
\* most one callback of animate() is pending.
C29_OneLoop == animation.exists => animation.pending <= 1

\* start(), stop() and start() again before the frame requested first has
\* run: two callbacks are pending and both will go on requesting frames
C29_TwoLoops ==
    /\ animation.exists /\ animation.isRunning
    /\ animation.pending = 2

\* between stop() and the next start() no frame is drawn: the electrons
\* stay where they are
C29_NoFrameWhileStopped ==
    [][ (animation.exists /\ ~animation.isRunning /\ ~animation'.isRunning)
        => animation'.electrons = animation.electrons ]_vars

-----------------------------------------------------------------------------
(* Properties of Utils.debounce *)

\* what holds of the invocations of func in every state: one pending timer
\* at most, one invocation at most since the most recent call, made wait
\* milliseconds or more after that call and with its arguments, and no call
\* left without a timer or an invocation
DebouncedInvocations ==
    debounced.exists =>
        /\ Cardinality(debounced.timers) <= 1
        /\ debounced.fired <= 1
        /\ debounced.fired = 1 =>
              /\ debounced.invocation.time >= debounced.lastCall.time + debounced.wait
              /\ debounced.invocation.args = debounced.lastCall.args
        /\ (debounced.calls > 0 /\ debounced.fired = 0) =>
              \E timer \in debounced.timers :
                  /\ timer.id = debounced.timeout
                  /\ timer.due = debounced.lastCall.time + debounced.wait
                  /\ timer.args = debounced.lastCall.args

\* C22: func is invoked only once wait milliseconds have passed with no
\* further call, exactly once per quiet period and with the arguments of the
\* most recent call; a call while an invocation is pending cancels it and
\* restarts the wait.
C22_Debounced ==
    /\ []DebouncedInvocations
    /\ \A n \in 1..MaxCalls :
          (debounced.exists /\ debounced.calls = n /\ debounced.fired = 0)
             ~> (debounced.exists /\ (debounced.fired = 1 \/ debounced.calls > n))

\* a call cancelled a pending invocation, and func then ran once with the
\* arguments of the later call
C22_Witness ==
    /\ debounced.exists
    /\ debounced.cancelled >= 1
    /\ debounced.fired = 1
    /\ debounced.lastCall.args = "b"
    /\ debounced.invocation.args = "b"

=============================================================================
